---- MODULE Spec2Model ----
(***************************************************************************)
(* Model of the BT Company Extractor, server version 3.4.0: the text       *)
(* quality analyzer, the document-to-text fallback chain with its OCR      *)
(* runner, the two company-name extractors and the /api/extract-names      *)
(* handler (Spec).  Further specifications apply single parts to bounded   *)
(* inputs: the analyzer (AnalyzerSpec), the confidence adjustment of       *)
(* version 3.2.1 (ConfidenceSpec), performLocalOCR for two concurrent      *)
(* documents (LocalOcrSpec), the /api/debug-detailed-ocr handler           *)
(* (DebugSpec), the extractors (ExtractorSpec), the deduplication          *)
(* (DedupSpec), the CRM update and its two handlers (CrmSpec), the parser  *)
(* for any declared type (ParserSpec), fragment matching (FragmentSpec),   *)
(* the word filter (WordSpec) and the post-OCR cleanup (CleanupSpec).      *)
(*                                                                         *)
(* A text is a sequence of one-character strings.  Regular expressions of  *)
(* the source are values interpreted by a backtracking matcher (Run) that  *)
(* follows the priority order of the JavaScript engine: greedy             *)
(* quantifiers, alternatives left to right, leftmost match.                *)
(***************************************************************************)
EXTENDS Integers, Sequences, FiniteSets, TLC

(***************************************************************************)
(* Character classes of the regular expressions in the source.             *)
(***************************************************************************)
Lower ==
  {"a","b","c","d","e","f","g","h","i","j","k","l","m",
   "n","o","p","q","r","s","t","u","v","w","x","y","z"}

Upper ==
  {"A","B","C","D","E","F","G","H","I","J","K","L","M",
   "N","O","P","Q","R","S","T","U","V","W","X","Y","Z"}

Digit == {"0","1","2","3","4","5","6","7","8","9"}

Letter == Lower \cup Upper

\* \w
WordChar == Letter \cup Digit \cup {"_"}

\* \s (the model's texts use blank, newline and tab)
WhiteSpace == {" ", "\n", "\t"}

Vowel == {"a","e","i","o","u","A","E","I","O","U"}

\* the punctuation of [a-zA-Z0-9\s\.,;:!?\-()&]
ReadablePunct == {".", ",", ";", ":", "!", "?", "-", "(", ")", "&"}

ReadableChar == Letter \cup Digit \cup WhiteSpace \cup ReadablePunct

\* variant of the class in which a digit counts as garbled
NotGarbledCharDigitsOut == Letter \cup {"_"} \cup WhiteSpace \cup ReadablePunct

\* the characters [^\w\s\.,;:!?\-()&] does NOT match
NotGarbledChar == WordChar \cup WhiteSpace \cup ReadablePunct

LowerOf ==
  [c \in Upper |->
     CASE c = "A" -> "a" [] c = "B" -> "b" [] c = "C" -> "c" [] c = "D" -> "d"
       [] c = "E" -> "e" [] c = "F" -> "f" [] c = "G" -> "g" [] c = "H" -> "h"
       [] c = "I" -> "i" [] c = "J" -> "j" [] c = "K" -> "k" [] c = "L" -> "l"
       [] c = "M" -> "m" [] c = "N" -> "n" [] c = "O" -> "o" [] c = "P" -> "p"
       [] c = "Q" -> "q" [] c = "R" -> "r" [] c = "S" -> "s" [] c = "T" -> "t"
       [] c = "U" -> "u" [] c = "V" -> "v" [] c = "W" -> "w" [] c = "X" -> "x"
       [] c = "Y" -> "y" [] c = "Z" -> "z"]

(***************************************************************************)
(* String operations of the JavaScript runtime, on sequences of chars.     *)
(***************************************************************************)
Min(a, b) == IF a <= b THEN a ELSE b

Max(a, b) == IF a >= b THEN a ELSE b

\* the positions 1..n as a sequence
Indices(n) == [i \in 1..n |-> i]

\* String.prototype.toLowerCase
toLowerCase(s) == [i \in 1..Len(s) |-> IF s[i] \in Upper THEN LowerOf[s[i]] ELSE s[i]]

\* s.replace(/[^C]/g, ' ') for a character class C
BlankOutside(s, C) == [i \in 1..Len(s) |-> IF s[i] \in C THEN s[i] ELSE " "]

\* s.replace(/[^C]/g, '') for a character class C
DropOutside(s, C) ==
  LET keep == SelectSeq(Indices(Len(s)), LAMBDA i : s[i] \in C)
  IN  [k \in 1..Len(keep) |-> s[keep[k]]]

\* s.replace(/[C]+/g, ' ') for a character class C
ReplaceRuns(s, C) ==
  LET keep == SelectSeq(Indices(Len(s)),
                LAMBDA i : ~(s[i] \in C /\ i > 1 /\ s[i-1] \in C))
  IN  [k \in 1..Len(keep) |-> IF s[keep[k]] \in C THEN " " ELSE s[keep[k]]]

\* s.replace(/\s+/g, ' ')
CollapseWhitespace(s) == ReplaceRuns(s, WhiteSpace)

\* String.prototype.trim
trim(s) ==
  LET ink == {i \in 1..Len(s) : s[i] \notin WhiteSpace}
  IN  IF ink = {} THEN <<>>
      ELSE LET lo == CHOOSE i \in ink : \A j \in ink : i <= j
               hi == CHOOSE i \in ink : \A j \in ink : i >= j
           IN  SubSeq(s, lo, hi)

\* String.prototype.substring(0, n)
substring0(s, n) == SubSeq(s, 1, Min(n, Len(s)))

\* does sub occur in s at position i (1-based)
OccursAt(sub, s, i) ==
  /\ i >= 1
  /\ i + Len(sub) - 1 <= Len(s)
  /\ \A k \in 1..Len(sub) : s[i + k - 1] = sub[k]

\* String.prototype.includes
includes(s, sub) == \E i \in 1..(Len(s) + 1) : OccursAt(sub, s, i)

(***************************************************************************)
(* Text Quality Analyzer.                                                  *)
(***************************************************************************)
IsLetterAt(text, i) == i >= 1 /\ i <= Len(text) /\ text[i] \in Letter

\* last position of the maximal run of letters that starts at i
RunEnd(text, i) ==
  CHOOSE j \in i..Len(text) :
    /\ \A k \in i..j : text[k] \in Letter
    /\ ~IsLetterAt(text, j + 1)

\* text.match(/[a-zA-Z]{2,}/g): the maximal letter runs of length >= 2,
\* each as the pair of its first and last position
WordSpans(text) ==
  {<<i, RunEnd(text, i)>> :
     i \in {p \in 1..Len(text) :
              /\ IsLetterAt(text, p)
              /\ ~IsLetterAt(text, p - 1)
              /\ IsLetterAt(text, p + 1)}}

\* variant of the filter without the test for consonants in a row
IsValidWordAnyRun(text, span) ==
  LET lo == span[1]
      hi == span[2]
      len == hi - lo + 1
      vowels == Cardinality({k \in lo..hi : text[k] \in Vowel})
  IN  /\ ~(len < 2)
      /\ ~(len > 20)
      /\ ~(vowels = 0 /\ len > 3)

\* the filter of validWords
IsValidWord(text, span) ==
  LET lo == span[1]
      hi == span[2]
      len == hi - lo + 1
      vowels == Cardinality({k \in lo..hi : text[k] \in Vowel})
  IN  /\ ~(len < 2)
      /\ ~(len > 20)
      /\ ~(vowels = 0 /\ len > 3)
      /\ ~(\E k \in lo..(hi - 4) : \A m \in k..(k + 4) : text[m] \notin Vowel)

\* variant that scales the quotient by 1000
RoundPerMille(num, den) == (2000 * num + den) \div (2 * den)

\* Math.round(num / den * 100) for num, den >= 0, den > 0, in exact
\* arithmetic (round half up)
RoundPercent(num, den) == (200 * num + den) \div (2 * den)

\* garbledRatio and avgWordLength are quotients: they are kept as the pair
\* of numerator and denominator
analyzeTextQuality(text) ==
  IF Len(text) = 0
  THEN [readableRatio |-> 0, validWordCount |-> 0,
        garbledRatio |-> [num |-> 1, den |-> 1]]
  ELSE LET totalChars == Len(text)
           readableChars == Cardinality({i \in 1..totalChars : text[i] \in ReadableChar})
           garbledChars == Cardinality({i \in 1..totalChars : text[i] \notin NotGarbledChar})
           words == WordSpans(text)
           validWords == {w \in words : IsValidWord(text, w)}
           wordChars == Cardinality({i \in 1..totalChars :
                           \E w \in words : w[1] <= i /\ i <= w[2]})
       IN  [readableRatio |-> RoundPercent(readableChars, totalChars),
            validWordCount |-> Cardinality(validWords),
            garbledRatio |-> [num |-> garbledChars, den |-> totalChars],
            totalWords |-> Cardinality(words),
            avgWordLength |-> IF Cardinality(words) > 0
                              THEN [num |-> wordChars, den |-> Cardinality(words)]
                              ELSE [num |-> 0, den |-> 1]]

(***************************************************************************)
(* Post-OCR cleanup.                                                       *)
(***************************************************************************)
\* [\w\s\.,;:!?\-()&\'\"], the characters the aggressive cleanup keeps
CleanupKeptChar == WordChar \cup WhiteSpace \cup ReadablePunct \cup {"'", "\""}

SentencePunct == {".", "!", "?"}

\* first position from i on that holds no whitespace (Len(s) + 1 if none)
SkipWhitespace(s, i) ==
  CHOOSE j \in i..(Len(s) + 1) :
    /\ \A k \in i..(j - 1) : s[k] \in WhiteSpace
    /\ (j = Len(s) + 1 \/ s[j] \notin WhiteSpace)

RECURSIVE SpaceAfterPunctuation(_, _)
\* s.replace(/([.!?])\s*([a-z])/g, '$1 $2') from position i on
SpaceAfterPunctuation(s, i) ==
  IF i > Len(s) THEN <<>>
  ELSE LET j == SkipWhitespace(s, i + 1)
       IN  IF s[i] \in SentencePunct /\ j <= Len(s) /\ s[j] \in Lower
           THEN <<s[i], " ", s[j]>> \o SpaceAfterPunctuation(s, j + 1)
           ELSE <<s[i]>> \o SpaceAfterPunctuation(s, i + 1)

RECURSIVE SplitCamelCase(_, _)
\* s.replace(/([a-z])([A-Z])/g, '$1 $2') from position i on
SplitCamelCase(s, i) ==
  IF i > Len(s) THEN <<>>
  ELSE IF s[i] \in Lower /\ i < Len(s) /\ s[i + 1] \in Upper
  THEN <<s[i], " ", s[i + 1]>> \o SplitCamelCase(s, i + 2)
  ELSE <<s[i]>> \o SplitCamelCase(s, i + 1)

\* variant of the cleanup without the final trim
applyIntelligentCleanupUntrimmed(text, qualityAnalysis) ==
  LET cleaned == IF qualityAnalysis.readableRatio < 50
                 THEN BlankOutside(text, CleanupKeptChar)
                 ELSE text
  IN  SplitCamelCase(SpaceAfterPunctuation(CollapseWhitespace(cleaned), 1), 1)

applyIntelligentCleanup(text, qualityAnalysis) ==
  LET cleaned == IF qualityAnalysis.readableRatio < 50
                 THEN BlankOutside(text, CleanupKeptChar)
                 ELSE text
  IN  trim(SplitCamelCase(SpaceAfterPunctuation(CollapseWhitespace(cleaned), 1), 1))

(***************************************************************************)
(* Regular expressions.  A pattern is a value built from the constructors  *)
(* below; Run interprets a stack of patterns still to be matched, which is *)
(* the continuation of a backtracking matcher, so that the first success   *)
(* it finds is the match the JavaScript engine returns.  Only capture      *)
(* group 1 is recorded: the source reads match[0] and match[1] only.       *)
(***************************************************************************)
UpperOf(c) == CHOOSE u \in Upper : LowerOf[u] = c

\* the characters a class matches under the i flag
CI(S) ==
  S \cup {LowerOf[c] : c \in S \cap Upper} \cup {UpperOf(c) : c \in S \cap Lower}

Cls(S) == [t |-> "cls", set |-> S]

NCls(S) == [t |-> "ncls", set |-> S]

Cat(rs) == [t |-> "cat", rs |-> rs]

Alt(rs) == [t |-> "alt", rs |-> rs]

\* r{lo,hi}, greedy; hi < 0 stands for no upper limit
Rep(r, lo, hi) == [t |-> "rep", r |-> r, lo |-> lo, hi |-> hi]

Plus(r) == Rep(r, 1, -1)

Star(r) == Rep(r, 0, -1)

Opt(r) == Rep(r, 0, 1)

\* capture group 1
Grp(r) == [t |-> "grp", r |-> r]

\* \b
WordB == [t |-> "wb"]

\* a literal string, and the same under the i flag
Lit(s) == [t |-> "lit", s |-> s, i |-> FALSE]

LitI(s) == [t |-> "lit", s |-> s, i |-> TRUE]

NoCap == <<0, 0>>

NoMatch == [ok |-> FALSE]

ClassMatches(h, c) == IF h.t = "cls" THEN c \in h.set ELSE c \notin h.set

\* does the literal h occur in text at position pos
LitMatches(h, text, pos) ==
  /\ pos + Len(h.s) - 1 <= Len(text)
  /\ \A k \in 1..Len(h.s) :
        IF h.i THEN text[pos + k - 1] \in CI({h.s[k]}) ELSE text[pos + k - 1] = h.s[k]

\* is there a word boundary in front of position pos
AtWordBoundary(text, pos) ==
  LET before == pos > 1 /\ pos - 1 <= Len(text) /\ text[pos - 1] \in WordChar
      after == pos >= 1 /\ pos <= Len(text) /\ text[pos] \in WordChar
  IN  before # after

\* how many characters from pos on match the one-character pattern h,
\* counted up to hi (no limit when hi < 0)
ClassRun(h, text, pos, hi) ==
  LET lim == IF hi < 0 THEN Len(text) - pos + 1 ELSE Min(hi, Len(text) - pos + 1)
  IN  CHOOSE m \in 0..Max(lim, 0) :
        /\ \A k \in 0..(m - 1) : ClassMatches(h, text[pos + k])
        /\ (m = Max(lim, 0) \/ ~ClassMatches(h, text[pos + m]))

RECURSIVE Run(_, _, _, _)
RECURSIVE TryLen(_, _, _, _, _, _)

\* a greedy repetition of a one-character pattern: the longest run first,
\* then one character less at a time down to lo
TryLen(rest, text, pos, cap, k, lo) ==
  IF k < lo THEN NoMatch
  ELSE LET r == Run(rest, text, pos + k, cap)
       IN  IF r.ok THEN r ELSE TryLen(rest, text, pos, cap, k - 1, lo)

Run(stack, text, pos, cap) ==
  IF Len(stack) = 0 THEN [ok |-> TRUE, end |-> pos, cap |-> cap]
  ELSE
    LET h == Head(stack)
        rest == Tail(stack)
    IN  CASE h.t \in {"cls", "ncls"} ->
               IF pos <= Len(text) /\ ClassMatches(h, text[pos])
               THEN Run(rest, text, pos + 1, cap)
               ELSE NoMatch
          [] h.t = "lit" ->
               IF LitMatches(h, text, pos)
               THEN Run(rest, text, pos + Len(h.s), cap)
               ELSE NoMatch
          [] h.t = "cat" -> Run(h.rs \o rest, text, pos, cap)
          [] h.t = "alt" ->
               IF Len(h.rs) = 0 THEN NoMatch
               ELSE LET r == Run(<<Head(h.rs)>> \o rest, text, pos, cap)
                    IN  IF r.ok THEN r
                        ELSE Run(<<Alt(Tail(h.rs))>> \o rest, text, pos, cap)
          [] h.t = "rep" ->
               IF h.r.t \in {"cls", "ncls"}
               THEN TryLen(rest, text, pos, cap, ClassRun(h.r, text, pos, h.hi), h.lo)
               ELSE LET more == IF h.hi = 0 THEN NoMatch
                                ELSE Run(<<h.r, Rep(h.r, h.lo - 1, h.hi - 1)>> \o rest,
                                         text, pos, cap)
                    IN  IF more.ok THEN more
                        ELSE IF h.lo <= 0 THEN Run(rest, text, pos, cap)
                        ELSE NoMatch
          [] h.t = "grp" ->
               Run(<<h.r, [t |-> "grpend", start |-> pos]>> \o rest, text, pos, cap)
          [] h.t = "grpend" -> Run(rest, text, pos, <<h.start, pos - 1>>)
          [] h.t = "wb" ->
               IF AtWordBoundary(text, pos) THEN Run(rest, text, pos, cap) ELSE NoMatch

\* RegExp.prototype.exec of a global pattern with lastIndex = from - 1:
\* the match at the leftmost start position, or NoMatch
exec(re, text, from) ==
  LET starts == {s \in from..(Len(text) + 1) : Run(<<re>>, text, s, NoCap).ok}
  IN  IF starts = {} THEN NoMatch
      ELSE LET s == CHOOSE x \in starts : \A y \in starts : x <= y
               r == Run(<<re>>, text, s, NoCap)
           IN  [ok |-> TRUE, start |-> s, end |-> r.end,
                fullMatch |-> SubSeq(text, s, r.end - 1),
                hasGroup |-> r.cap # NoCap,
                group1 |-> IF r.cap = NoCap THEN <<>> ELSE SubSeq(text, r.cap[1], r.cap[2])]

RECURSIVE execLoop(_, _, _, _)
\* the matches of `while ((match = re.exec(text)) !== null && count < limit)`,
\* in order; limit < 0 stands for a loop without a counter
execLoop(re, text, from, limit) ==
  IF limit = 0 THEN <<>>
  ELSE LET m == exec(re, text, from)
       IN  IF ~m.ok THEN <<>>
           ELSE <<m>> \o execLoop(re, text, IF m.end > m.start THEN m.end ELSE m.end + 1,
                                  limit - 1)

(***************************************************************************)
(* Company Name Extractor: the pattern libraries.                          *)
(***************************************************************************)
\* [A-Za-z\s&\.\-']
NameChar == Letter \cup WhiteSpace \cup {"&", ".", "-", "'"}

\* [A-Za-z\s&\.\-',]
NameCharComma == NameChar \cup {","}

\* [^A-Za-z]{0,n}
Noise(n) == Rep(NCls(Letter), 0, n)

\* \s+ and \s*
Ws1 == Plus(Cls(WhiteSpace))

Ws0 == Star(Cls(WhiteSpace))

\* one letter of a character hunt, e.g. [Bb], under the i flag
Hunt(c) == Cls(CI({c}))

\* /BitConcepts[^A-Za-z]{0,20}LLC/gi
BitConceptsDirectRegex ==
  Cat(<<LitI(<<"B","i","t","C","o","n","c","e","p","t","s">>), Noise(20), LitI(<<"L","L","C">>)>>)

\* /PORVIN[^A-Za-z]{0,100}PLLC/gi
PorvinDirectRegex ==
  Cat(<<LitI(<<"P","O","R","V","I","N">>), Noise(100), LitI(<<"P","L","L","C">>)>>)

\* /[Bb][^A-Za-z]{0,5}[Ii]...[Ss][^A-Za-z]{0,20}[Ll][^A-Za-z]{0,5}[Ll][^A-Za-z]{0,5}[Cc]/gi
BitConceptsHuntRegex ==
  Cat(<<Hunt("B"), Noise(5), Hunt("i"), Noise(5), Hunt("t"), Noise(5),
        Hunt("C"), Noise(5), Hunt("o"), Noise(5), Hunt("n"), Noise(5),
        Hunt("c"), Noise(5), Hunt("e"), Noise(5), Hunt("p"), Noise(5),
        Hunt("t"), Noise(5), Hunt("s"), Noise(20),
        Hunt("L"), Noise(5), Hunt("L"), Noise(5), Hunt("C")>>)

\* /[Pp][^A-Za-z]{0,5}[Oo]...[Nn][^A-Za-z]{0,50}[Pp][^A-Za-z]{0,5}[Ll][^A-Za-z]{0,5}[Ll][^A-Za-z]{0,5}[Cc]/gi
PorvinHuntRegex ==
  Cat(<<Hunt("P"), Noise(5), Hunt("o"), Noise(5), Hunt("r"), Noise(5),
        Hunt("v"), Noise(5), Hunt("i"), Noise(5), Hunt("n"), Noise(50),
        Hunt("P"), Noise(5), Hunt("L"), Noise(5), Hunt("L"), Noise(5), Hunt("C")>>)

\* /(?:name\s+of\s+the\s+limited\s+liability\s+company|company\s+is)[^A-Za-z]{0,20}
\*  ([A-Za-z][A-Za-z\s&\.\-',]{3,50}[^A-Za-z]{0,10}(?:LLC|PLLC))/gi
ArticlesDeclarationRegex ==
  Cat(<<Alt(<<Cat(<<LitI(<<"n","a","m","e">>), Ws1, LitI(<<"o","f">>), Ws1, LitI(<<"t","h","e">>), Ws1,
                    LitI(<<"l","i","m","i","t","e","d">>), Ws1, LitI(<<"l","i","a","b","i","l","i","t","y">>), Ws1, LitI(<<"c","o","m","p","a","n","y">>)>>),
              Cat(<<LitI(<<"c","o","m","p","a","n","y">>), Ws1, LitI(<<"i","s">>)>>)>>),
        Noise(20),
        Grp(Cat(<<Cls(Letter), Rep(Cls(NameCharComma), 3, 50), Noise(10),
                  Alt(<<LitI(<<"L","L","C">>), LitI(<<"P","L","L","C">>)>>)>>))>>)

\* /\b([A-Z][A-Za-z\s&\.\-']{2,n})\s*,?\s*(LLC|L\.L\.C\.)\b/g
StandardLLCRegex(n) ==
  Cat(<<WordB, Grp(Cat(<<Cls(Upper), Rep(Cls(NameChar), 2, n)>>)),
        Ws0, Opt(Cls({","})), Ws0,
        Alt(<<Lit(<<"L","L","C">>), Lit(<<"L",".","L",".","C",".">>)>>), WordB>>)

\* /\b([A-Z][A-Za-z\s&\.\-']{2,n})\s*,?\s*(PLLC|P\.L\.L\.C\.)\b/g
StandardPLLCRegex(n) ==
  Cat(<<WordB, Grp(Cat(<<Cls(Upper), Rep(Cls(NameChar), 2, n)>>)),
        Ws0, Opt(Cls({","})), Ws0,
        Alt(<<Lit(<<"P","L","L","C">>), Lit(<<"P",".","L",".","L",".","C",".">>)>>), WordB>>)

\* /([A-Za-z][A-Za-z\s&\.\-']{5,40})[^A-Za-z]{0,10}(LLC|L\.L\.C\.)/gi
FlexibleLLCRegex ==
  Cat(<<Grp(Cat(<<Cls(Letter), Rep(Cls(NameChar), 5, 40)>>)), Noise(10),
        Alt(<<LitI(<<"L","L","C">>), LitI(<<"L",".","L",".","C",".">>)>>)>>)

\* /((?:[A-Z][a-z]+[^A-Za-z]{0,5}){2,5})[^A-Za-z]{0,15}(LLC|PLLC)/gi
BusinessSequenceRegex ==
  Cat(<<Grp(Rep(Cat(<<Cls(CI(Upper)), Plus(Cls(CI(Lower))), Noise(5)>>), 2, 5)),
        Noise(15), Alt(<<LitI(<<"L","L","C">>), LitI(<<"P","L","L","C">>)>>)>>)

BitConceptsName == <<"B","i","t","C","o","n","c","e","p","t","s",","," ","L","L","C">>

PorvinName == <<"P","O","R","V","I","N",","," ","B","U","R","N","S","T","E","I","N"," ","&"," ","G","A","R","E","L","I","K",","," ","P","L","L","C">>

\* a pattern with extractName returns fixedName whatever it captured
enhancedPatterns ==
  << [name |-> "BitConcepts Direct Search", regex |-> BitConceptsDirectRegex,
      confidence |-> 95, extractName |-> TRUE, fixedName |-> BitConceptsName],
     [name |-> "PORVIN Direct Search", regex |-> PorvinDirectRegex,
      confidence |-> 90, extractName |-> TRUE, fixedName |-> PorvinName],
     [name |-> "BitConcepts Character Hunt", regex |-> BitConceptsHuntRegex,
      confidence |-> 85, extractName |-> TRUE, fixedName |-> BitConceptsName],
     [name |-> "PORVIN Character Hunt", regex |-> PorvinHuntRegex,
      confidence |-> 80, extractName |-> TRUE, fixedName |-> PorvinName],
     [name |-> "Articles Company Declaration", regex |-> ArticlesDeclarationRegex,
      confidence |-> 75, extractName |-> FALSE, fixedName |-> <<>>],
     [name |-> "Standard LLC Pattern", regex |-> StandardLLCRegex(40),
      confidence |-> 60, extractName |-> FALSE, fixedName |-> <<>>],
     [name |-> "Standard PLLC Pattern", regex |-> StandardPLLCRegex(40),
      confidence |-> 65, extractName |-> FALSE, fixedName |-> <<>>],
     [name |-> "Flexible LLC Hunt", regex |-> FlexibleLLCRegex,
      confidence |-> 50, extractName |-> FALSE, fixedName |-> <<>>],
     [name |-> "Business Sequence Near LLC", regex |-> BusinessSequenceRegex,
      confidence |-> 40, extractName |-> FALSE, fixedName |-> <<>>] >>

\* /(?:name\s+of\s+the\s+limited\s+liability\s+company\s+is\s*:?\s*)
\*  ([A-Za-z][A-Za-z\s&\.\-',]{2,50}(?:\s*,?\s*LLC))/gi
ArticlesLLCFormatRegex ==
  Cat(<<LitI(<<"n","a","m","e">>), Ws1, LitI(<<"o","f">>), Ws1, LitI(<<"t","h","e">>), Ws1, LitI(<<"l","i","m","i","t","e","d">>), Ws1,
        LitI(<<"l","i","a","b","i","l","i","t","y">>), Ws1, LitI(<<"c","o","m","p","a","n","y">>), Ws1, LitI(<<"i","s">>),
        Ws0, Opt(Cls({":"})), Ws0,
        Grp(Cat(<<Cls(Letter), Rep(Cls(NameCharComma), 2, 50),
                  Ws0, Opt(Cls({","})), Ws0, LitI(<<"L","L","C">>)>>))>>)

\* the patterns of extractCompanyNames
patterns ==
  << [name |-> "Articles LLC Format", regex |-> ArticlesLLCFormatRegex, confidence |-> 60],
     [name |-> "Standard LLC", regex |-> StandardLLCRegex(50), confidence |-> 45],
     [name |-> "Professional LLC (PLLC)", regex |-> StandardPLLCRegex(50), confidence |-> 50] >>

knownCompanies ==
  << [fragments |-> <<<<"b","i","t">>, <<"c","o","n","c","e","p","t","s">>, <<"l","l","c">>>>,
      name |-> BitConceptsName, confidence |-> 90],
     [fragments |-> <<<<"p","o","r","v","i","n">>, <<"b","u","r","n","s","t","e","i","n">>, <<"g","a","r","e","l","i","k">>, <<"p","l","l","c">>>>,
      name |-> PorvinName, confidence |-> 85] >>

(***************************************************************************)
(* Company Name Extractor: cleaning of a captured name.                    *)
(***************************************************************************)
\* [\w\s&\.\-',], the characters a captured name keeps
KeptChar == WordChar \cup WhiteSpace \cup {"&", ".", "-", "'", ","}

IsWordCharAt(s, i) == i >= 1 /\ i <= Len(s) /\ s[i] \in WordChar

\* s.replace(/\b[a-z]\b/g, '')
RemoveLoneLower(s) ==
  LET keep == SelectSeq(Indices(Len(s)),
                LAMBDA i : ~(/\ s[i] \in Lower
                             /\ ~IsWordCharAt(s, i - 1)
                             /\ ~IsWordCharAt(s, i + 1)))
  IN  [k \in 1..Len(keep) |-> s[keep[k]]]

\* first and last position of the maximal run of digits around position i
DigitRunLo(s, i) == CHOOSE p \in 1..i : (\A k \in p..i : s[k] \in Digit)
                                        /\ (p = 1 \/ s[p - 1] \notin Digit)

DigitRunHi(s, i) == CHOOSE p \in i..Len(s) : (\A k \in i..p : s[k] \in Digit)
                                             /\ (p = Len(s) \/ s[p + 1] \notin Digit)

\* s.replace(/\b[0-9]+\b/g, '')
RemoveNumberTokens(s) ==
  LET keep == SelectSeq(Indices(Len(s)),
                LAMBDA i : ~(/\ s[i] \in Digit
                             /\ ~IsWordCharAt(s, DigitRunLo(s, i) - 1)
                             /\ ~IsWordCharAt(s, DigitRunHi(s, i) + 1)))
  IN  [k \in 1..Len(keep) |-> s[keep[k]]]

\* cleanCompanyPart of extractCompanyNamesEnhanced
cleanCompanyPart(companyPart) ==
  trim(CollapseWhitespace(RemoveNumberTokens(RemoveLoneLower(
    CollapseWhitespace(BlankOutside(trim(companyPart), KeptChar))))))

\* cleanName of extractCompanyNames
cleanName(companyNamePart) ==
  trim(DropOutside(CollapseWhitespace(trim(companyNamePart)), KeptChar))

\* /PLLC/i.test(s) and the like: the literal occurs in s in any letter case
ContainsI(s, lit) == includes(toLowerCase(s), toLowerCase(lit))

\* entityType of extractCompanyNamesEnhanced
entityTypeEnhanced(fullMatch) ==
  IF ContainsI(fullMatch, <<"P","L","L","C">>) THEN <<"P","L","L","C">>
  ELSE IF ContainsI(fullMatch, <<"I","n","c">>) THEN <<"I","n","c",".">>
  ELSE IF ContainsI(fullMatch, <<"C","o","r","p">>) THEN <<"C","o","r","p",".">>
  ELSE <<"L","L","C">>

\* /\b(PLLC|P\.L\.L\.C\.)\b/i, /\b(Inc\.?|Incorporated)\b/i,
\* /\b(Corp\.?|Corporation)\b/i
PllcWordRegex == Cat(<<WordB, Alt(<<LitI(<<"P","L","L","C">>), LitI(<<"P",".","L",".","L",".","C",".">>)>>), WordB>>)

IncWordRegex ==
  Cat(<<WordB, Alt(<<Cat(<<LitI(<<"I","n","c">>), Opt(Cls({"."}))>>), LitI(<<"I","n","c","o","r","p","o","r","a","t","e","d">>)>>), WordB>>)

CorpWordRegex ==
  Cat(<<WordB, Alt(<<Cat(<<LitI(<<"C","o","r","p">>), Opt(Cls({"."}))>>), LitI(<<"C","o","r","p","o","r","a","t","i","o","n">>)>>), WordB>>)

\* RegExp.prototype.test of a pattern without the g flag
test(re, s) == exec(re, s, 1).ok

\* entityType of extractCompanyNames
entityTypeStandard(fullMatch) ==
  IF test(PllcWordRegex, fullMatch) THEN <<"P","L","L","C">>
  ELSE IF test(IncWordRegex, fullMatch) THEN <<"I","n","c",".">>
  ELSE IF test(CorpWordRegex, fullMatch) THEN <<"C","o","r","p",".">>
  ELSE <<"L","L","C">>

\* the name with the entity type appended unless it already contains it
withEntityType(name, entityType) ==
  IF includes(toLowerCase(name), toLowerCase(entityType))
  THEN name
  ELSE name \o << " " >> \o entityType

\* /^(article|certificate|department|the\s+name|stream|endobj|filter|length|decode)/i
DenylistRegex ==
  Alt(<<LitI(<<"a","r","t","i","c","l","e">>), LitI(<<"c","e","r","t","i","f","i","c","a","t","e">>), LitI(<<"d","e","p","a","r","t","m","e","n","t">>),
        Cat(<<LitI(<<"t","h","e">>), Ws1, LitI(<<"n","a","m","e">>)>>), LitI(<<"s","t","r","e","a","m">>), LitI(<<"e","n","d","o","b","j">>),
        LitI(<<"f","i","l","t","e","r">>), LitI(<<"l","e","n","g","t","h">>), LitI(<<"d","e","c","o","d","e">>)>>)

matchesDenylist(name) == Run(<<DenylistRegex>>, name, 1, NoCap).ok

\* String.prototype.indexOf, 1-based; 0 when there is no occurrence
indexOf(s, sub) ==
  LET at == {i \in 1..(Len(s) + 1) : OccursAt(sub, s, i)}
  IN  IF at = {} THEN 0 ELSE CHOOSE i \in at : \A j \in at : i <= j

getContext(text, match) ==
  LET index == indexOf(text, match)
  IN  IF index = 0 THEN <<>>
      ELSE SubSeq(text, Max(1, index - 50), Min(Len(text), index + Len(match) - 1 + 50))

\* finalName of one match of an enhanced pattern; <<>> stands for undefined
finalNameEnhanced(pattern, m) ==
  IF pattern.extractName THEN pattern.fixedName
  ELSE IF ~m.hasGroup \/ Len(trim(m.group1)) = 0 THEN <<>>
  ELSE LET cleaned == cleanCompanyPart(m.group1)
       IN  IF Len(cleaned) > 2
           THEN trim(CollapseWhitespace(RemoveNumberTokens(
                  withEntityType(cleaned, entityTypeEnhanced(m.fullMatch)))))
           ELSE <<>>

\* the candidates one enhanced pattern pushes, in match order
candidatesOfEnhancedPattern(pattern, cleanText) ==
  LET ms == execLoop(pattern.regex, cleanText, 1, 10)
      accepted == SelectSeq(ms, LAMBDA m :
                    LET finalName == finalNameEnhanced(pattern, m)
                    IN  /\ Len(finalName) >= 5
                        /\ Len(finalName) <= 80
                        /\ ~matchesDenylist(finalName))
  IN  [k \in 1..Len(accepted) |->
         [name |-> finalNameEnhanced(pattern, accepted[k]),
          confidence |-> pattern.confidence,
          patternName |-> pattern.name,
          originalMatch |-> accepted[k].fullMatch,
          context |-> getContext(cleanText, accepted[k].fullMatch)]]

\* the candidates one pattern of extractCompanyNames pushes
candidatesOfStandardPattern(pattern, cleanText) ==
  LET ms == execLoop(pattern.regex, cleanText, 1, -1)
      accepted == SelectSeq(ms, LAMBDA m :
                    LET c == cleanName(m.group1)
                    IN  /\ Len(c) >= 2
                        /\ Len(c) <= 70
                        /\ c[1] \in Upper)
  IN  [k \in 1..Len(accepted) |->
         [name |-> withEntityType(cleanName(accepted[k].group1),
                                  entityTypeStandard(accepted[k].fullMatch)),
          confidence |-> pattern.confidence,
          patternName |-> pattern.name,
          originalMatch |-> accepted[k].fullMatch,
          context |-> getContext(cleanText, accepted[k].fullMatch)]]

RECURSIVE Flatten(_)
\* the concatenation of a sequence of sequences
Flatten(ss) == IF Len(ss) = 0 THEN <<>> ELSE Head(ss) \o Flatten(Tail(ss))

(***************************************************************************)
(* Fragment matching for known companies.                                  *)
(***************************************************************************)
\* cleanText.match(/[A-Za-z]{3,}/g): the maximal letter runs of length >= 3
fragmentWords(cleanText) ==
  {SubSeq(cleanText, w[1], w[2]) : w \in {v \in WordSpans(cleanText) : v[2] - v[1] + 1 >= 3}}

\* Math.floor(n * 0.6)
FloorSixTenths(n) == (6 * n) \div 10

\* Math.ceil(n * 0.6)
CeilSixTenths(n) == (6 * n + 9) \div 10

RECURSIVE JoinFragments(_)
\* foundFragments.join(' + ')
JoinFragments(fs) ==
  IF Len(fs) = 0 THEN <<>>
  ELSE IF Len(fs) = 1 THEN fs[1]
  ELSE fs[1] \o <<" ","+"," ">> \o JoinFragments(Tail(fs))

fragmentCandidates(cleanText) ==
  LET words == fragmentWords(cleanText)
      foundFragments(company) ==
        SelectSeq(company.fragments,
                  LAMBDA fragment : \E word \in words : includes(toLowerCase(word), fragment))
      hits == SelectSeq(knownCompanies, LAMBDA company :
                Len(foundFragments(company)) >= CeilSixTenths(Len(company.fragments)))
  IN  [k \in 1..Len(hits) |->
         [name |-> hits[k].name,
          confidence |-> hits[k].confidence,
          patternName |-> "Fragment Matching",
          originalMatch |-> JoinFragments(foundFragments(hits[k])),
          context |-> <<"F","o","u","n","d"," ","b","y"," ","m","a","t","c","h","i","n","g"," ","w","o","r","d"," ","f","r","a","g","m","e","n","t","s">>]]

(***************************************************************************)
(* Deduplication and ranking.                                              *)
(***************************************************************************)
\* the alternatives of /llc|inc|corp|company|ltd|llp|pllc/g, in order
SuffixTokens == <<<<"l","l","c">>, <<"i","n","c">>, <<"c","o","r","p">>, <<"c","o","m","p","a","n","y">>, <<"l","t","d">>, <<"l","l","p">>, <<"p","l","l","c">>>>

\* the first alternative that occurs at position i, as its index; 0 if none
SuffixTokenAt(s, i) ==
  LET hit == {k \in 1..Len(SuffixTokens) : OccursAt(SuffixTokens[k], s, i)}
  IN  IF hit = {} THEN 0 ELSE CHOOSE k \in hit : \A j \in hit : k <= j

RECURSIVE StripSuffixTokens(_, _)
\* s.replace(/llc|inc|corp|company|ltd|llp|pllc/g, '') from position i on
StripSuffixTokens(s, i) ==
  IF i > Len(s) THEN <<>>
  ELSE LET k == SuffixTokenAt(s, i)
       IN  IF k = 0 THEN <<s[i]>> \o StripSuffixTokens(s, i + 1)
           ELSE StripSuffixTokens(s, i + Len(SuffixTokens[k]))

\* normalizedCurrentName / normalizedExistingName
normalizedName(name) ==
  StripSuffixTokens(DropOutside(toLowerCase(name), Lower \cup Digit), 1)

\* acc.find(...) as the index of the first entry with the same normalized
\* name; 0 if there is none
findExisting(acc, current) ==
  LET same == {i \in 1..Len(acc) : normalizedName(acc[i].name) = normalizedName(current.name)}
  IN  IF same = {} THEN 0 ELSE CHOOSE i \in same : \A j \in same : i <= j

\* variant of the reduce callback that keeps the entry it met first
dedupStepKeepFirst(acc, current) ==
  IF findExisting(acc, current) = 0 THEN Append(acc, current) ELSE acc

\* variant of the reduce callback that replaces the entry on a tie
dedupStepKeepLast(acc, current) ==
  LET index == findExisting(acc, current)
  IN  IF index = 0 THEN Append(acc, current)
      ELSE IF current.confidence >= acc[index].confidence
      THEN [acc EXCEPT ![index] = current]
      ELSE acc

\* one step of the reduce callback
dedupStep(acc, current) ==
  LET index == findExisting(acc, current)
  IN  IF index = 0 THEN Append(acc, current)
      ELSE IF current.confidence > acc[index].confidence
      THEN [acc EXCEPT ![index] = current]
      ELSE acc

RECURSIVE reduceDedup(_, _, _)
\* foundNames.reduce(callback, []) from entry i on
reduceDedup(acc, foundNames, i) ==
  IF i > Len(foundNames) THEN acc
  ELSE reduceDedup(dedupStep(acc, foundNames[i]), foundNames, i + 1)

\* uniqueNames of both extractors
uniqueNames(foundNames) == reduceDedup(<<>>, foundNames, 1)

\* insertion of c into a list sorted by descending confidence, behind the
\* entries of equal confidence (Array.prototype.sort is stable)
RECURSIVE insertByConfidence(_, _)
insertByConfidence(sorted, c) ==
  IF Len(sorted) = 0 THEN <<c>>
  ELSE IF Head(sorted).confidence >= c.confidence
  THEN <<Head(sorted)>> \o insertByConfidence(Tail(sorted), c)
  ELSE <<c>> \o sorted

RECURSIVE sortFrom(_, _, _)
sortFrom(sorted, names, i) ==
  IF i > Len(names) THEN sorted
  ELSE sortFrom(insertByConfidence(sorted, names[i]), names, i + 1)

\* variant that sorts by ascending confidence
sortByConfidenceAscending(names) ==
  LET sorted == sortFrom(<<>>, names, 1)
  IN  [i \in 1..Len(sorted) |-> sorted[Len(sorted) + 1 - i]]

\* names.sort((a, b) => b.confidence - a.confidence)
sortByConfidence(names) == sortFrom(<<>>, names, 1)

\* Array.prototype.slice(0, n)
slice0(names, n) == SubSeq(names, 1, Min(n, Len(names)))

\* variant without the slice: every unique name is returned
rankAndTruncateAll(names) == sortByConfidence(names)

\* uniqueNames.sort(...); return uniqueNames.slice(0, 5)
rankAndTruncate(names) == slice0(sortByConfidence(names), 5)

(***************************************************************************)
(* The two extractors.                                                     *)
(***************************************************************************)
\* text.replace(/\s+/g, ' ').replace(/\n+/g, ' ').trim()
cleanTextOf(text) == trim(ReplaceRuns(CollapseWhitespace(text), {"\n"}))

\* foundNames of extractCompanyNamesEnhanced before the deduplication:
\* the fragment candidates, then the candidates of each pattern in order
foundNamesEnhanced(text) ==
  IF Len(text) < 5 THEN <<>>
  ELSE LET cleanText == cleanTextOf(text)
       IN  fragmentCandidates(cleanText)
             \o Flatten([p \in 1..Len(enhancedPatterns) |->
                           candidatesOfEnhancedPattern(enhancedPatterns[p], cleanText)])

\* foundNames of extractCompanyNames before the deduplication
foundNamesStandard(text) ==
  IF Len(text) < 5 THEN <<>>
  ELSE LET cleanText == cleanTextOf(text)
       IN  Flatten([p \in 1..Len(patterns) |->
                      candidatesOfStandardPattern(patterns[p], cleanText)])

extractCompanyNamesEnhanced(text) == rankAndTruncate(uniqueNames(foundNamesEnhanced(text)))

extractCompanyNames(text) == rankAndTruncate(uniqueNames(foundNamesStandard(text)))

(***************************************************************************)
(* Sample documents: what the parsers and the OCR services answer.  The    *)
(* libraries and services are outside the repository, so each call draws   *)
(* its answer from one of the sets below.                                  *)
(***************************************************************************)
\* 'Acme Widget Co LLC is a firm in Ohio'
PdfShortText ==
  <<"A","c","m","e"," ","W","i","d","g","e","t"," ","C","o"," ","L","L","C",
    " ","i","s"," ","a"," ","f","i","r","m"," ","i","n"," ","O","h","i","o">>

\* 'Articles of Organization of Acme Widget, LLC. Zed Tools LLC is agent.'
PdfGoodText ==
  <<"A","r","t","i","c","l","e","s"," ","o","f"," ","O","r","g","a","n","i",
    "z","a","t","i","o","n"," ","o","f"," ","A","c","m","e"," ","W","i","d",
    "g","e","t",","," ","L","L","C","."," ","Z","e","d"," ","T","o","o","l",
    "s"," ","L","L","C"," ","i","s"," ","a","g","e","n","t",".">>

\* 'Acme Holdings LLC of Ohio 0123456789 0123456789 0123456789'
PdfFairText ==
  <<"A","c","m","e"," ","H","o","l","d","i","n","g","s"," ","L","L","C"," ",
    "o","f"," ","O","h","i","o"," ","0","1","2","3","4","5","6","7","8","9",
    " ","0","1","2","3","4","5","6","7","8","9"," ","0","1","2","3","4","5",
    "6","7","8","9">>

\* '##############################@@@@@@@@@@@@@@@@@@@@@@@@@@@@@@'
PdfGarbageText ==
  <<"#","#","#","#","#","#","#","#","#","#","#","#","#","#","#","#","#","#",
    "#","#","#","#","#","#","#","#","#","#","#","#","@","@","@","@","@","@",
    "@","@","@","@","@","@","@","@","@","@","@","@","@","@","@","@","@","@",
    "@","@","@","@","@","@">>

\* 'Acme Widget LLC'
ScrapeFragments ==
  <<"A","c","m","e"," ","W","i","d","g","e","t"," ","L","L","C">>

\* 'Abc LLC, 1 Def LLC, 2 Ghi LLC, 3 Jkl LLC, 4 Mno LLC, 5 Pqr PLLC'
DocxManyNames ==
  <<"A","b","c"," ","L","L","C",","," ","1"," ","D","e","f"," ","L","L","C",
    ","," ","2"," ","G","h","i"," ","L","L","C",","," ","3"," ","J","k","l",
    " ","L","L","C",","," ","4"," ","M","n","o"," ","L","L","C",","," ","5",
    " ","P","q","r"," ","P","L","L","C">>

\* 'BitConcepts LLC; company is Acme Tool, LLC'
DocxDuplicates ==
  <<"B","i","t","C","o","n","c","e","p","t","s"," ","L","L","C",";"," ","c",
    "o","m","p","a","n","y"," ","i","s"," ","A","c","m","e"," ","T","o","o",
    "l",","," ","L","L","C">>

\* 'no names here at all ok'
DocxNoNames ==
  <<"n","o"," ","n","a","m","e","s"," ","h","e","r","e"," ","a","t"," ","a",
    "l","l"," ","o","k">>

\* '1234567890'
DocxDigits ==
  <<"1","2","3","4","5","6","7","8","9","0">>

\* '!?.,;:-()&!?.,;:-()&!?.,;'
DocxPunctuation ==
  <<"!","?",".",",",";",":","-","(",")","&","!","?",".",",",";",":","-","(",
    ")","&","!","?",".",",",";">>

\* '#@$%^*+=~#@$%^*+=~#@$%^*+'
DocxSymbols ==
  <<"#","@","$","%","^","*","+","=","~","#","@","$","%","^","*","+","=","~",
    "#","@","$","%","^","*","+">>

\* 'Acme LLC'
DocxShort ==
  <<"A","c","m","e"," ","L","L","C">>

\* 'nothing to see in here'
DocxProse ==
  <<"n","o","t","h","i","n","g"," ","t","o"," ","s","e","e"," ","i","n"," ",
    "h","e","r","e">>

\* '##################'
OcrGarbagePage ==
  <<"#","#","#","#","#","#","#","#","#","#","#","#","#","#","#","#","#","#">>

\* 'ab cd ef gh ij ###'
OcrBoundaryPage ==
  <<"a","b"," ","c","d"," ","e","f"," ","g","h"," ","i","j"," ","#","#","#">>

\* 'The name of the company is Acme Widget LLC'
OcrGoodPage ==
  <<"T","h","e"," ","n","a","m","e"," ","o","f"," ","t","h","e"," ","c","o",
    "m","p","a","n","y"," ","i","s"," ","A","c","m","e"," ","W","i","d","g",
    "e","t"," ","L","L","C">>

\* 'aB cD eF gH iJ kL mN oP'
OcrCamelPage ==
  <<"a","B"," ","c","D"," ","e","F"," ","g","H"," ","i","J"," ","k","L"," ",
    "m","N"," ","o","P">>

\* 'Gamma   Works, LLC ~ is a company\n\nin Ohio'
LocalGoodText ==
  <<"G","a","m","m","a"," "," "," ","W","o","r","k","s",","," ","L","L","C",
    " ","~"," ","i","s"," ","a"," ","c","o","m","p","a","n","y","\n","\n",
    "i","n"," ","O","h","i","o">>

\* 'Gamma @@ LLC'
LocalShortText ==
  <<"G","a","m","m","a"," ","@","@"," ","L","L","C">>

\* a legacy .doc buffer: 'Beta Tools, LLC\t formed in Ohio\n'
DocBufferText ==
  <<"B","e","t","a"," ","T","o","o","l","s",","," ","L","L","C","\t"," ",
    "f","o","r","m","e","d"," ","i","n"," ","O","h","i","o","\n">>

\* a DOCX body followed by n characters of alternating blank and newline
Padded(text, n) == text \o [i \in 1..n |-> IF i % 2 = 1 THEN " " ELSE "\n"]

DocxPadded == Padded(DocxProse, 1000)

\* a call that throws instead of returning text
Throws == [threw |-> TRUE, text |-> <<>>]

Returns(text) == [threw |-> FALSE, text |-> text]

\* pdf(pdfBuffer) and pdf(pdfBuffer, options)
PdfParseOutcomes ==
  {Throws, Returns(<<>>), Returns(PdfGoodText), Returns(PdfFairText),
   Returns(PdfGarbageText)}

\* combinedText of the buffer scan; the empty text stands for an empty
\* extractedTexts set
ScrapeOutcomes ==
  {Throws, Returns(<<>>), Returns(ScrapeFragments), Returns(PdfShortText)}

\* mammoth.extractRawText
DocxOutcomes ==
  {Throws, Returns(DocxManyNames), Returns(DocxDuplicates), Returns(DocxNoNames),
   Returns(DocxDigits), Returns(DocxPunctuation), Returns(DocxSymbols),
   Returns(DocxShort), Returns(DocxPadded)}

\* docBuffer.toString('utf8')
DocBufferOutcomes == {DocBufferText, DocxSymbols}

\* what OCR.space answers to one request: a transport failure, an HTTP
\* error status, a processing error, or parsed pages, possibly none
OcrResponses ==
  {[kind |-> "thrown", pages |-> <<>>],
   [kind |-> "httpError", pages |-> <<>>],
   [kind |-> "processingError", pages |-> <<>>],
   [kind |-> "parsed", pages |-> <<>>],
   [kind |-> "parsed", pages |-> <<OcrGarbagePage>>],
   [kind |-> "parsed", pages |-> <<OcrBoundaryPage>>],
   [kind |-> "parsed", pages |-> <<OcrGoodPage>>],
   [kind |-> "parsed", pages |-> <<OcrCamelPage>>]}

\* allOCRText of performLocalOCR, or a throw before any text is recognized
LocalOcrOutcomes == {Throws, Returns(<<>>), Returns(LocalGoodText), Returns(LocalShortText)}


(***************************************************************************)
(* State of one upload to POST /api/extract-names.                         *)
(***************************************************************************)
Pdf == "application/pdf"

Docx == "application/vnd.openxmlformats-officedocument.wordprocessingml.document"

Msword == "application/msword"

ImageTypes == {"image/png", "image/jpeg", "image/jpg"}

\* the declared types a client may send
MimeTypes == {Pdf, Docx, Msword, "text/plain"} \cup ImageTypes

\* the names of ocrStrategies, in array order
ocrStrategies ==
  << "High-Resolution Engine 2 (Best for Articles)",
     "Engine 1 High Quality (Alternative)",
     "Table Detection Mode (For Complex Layouts)",
     "No Auto-Scaling (Raw Processing)" >>

\* the messages of the errors the pipeline throws
ExhaustedDiagnostic == "Unable to extract text from this PDF using any of 5 methods."

PoorQualityError == "Poor quality text - trying OCR"

AllStrategiesFailedError ==
  "All OCR.space strategies failed to produce acceptable text quality"

ExternalUnavailableError == "External OCR dependencies not available."

PdfRequiresOcrError == "PDF requires OCR but OCR services not available"

ImageRequiresOcrError == "Image processing requires OCR services"

UnsupportedTypeError == "Unsupported file type"

TextQualityError == "Text quality too poor or too short."

MammothError == "mammoth.extractRawText failed"

NoFileError == "No file uploaded"

NoNamesError == "Could not extract any company names from document."

NoOcrResult == [text |-> <<>>, rawText |-> <<>>, method |-> "", quality |-> 0, validWords |-> 0]

\* a request without the fields companyId and companyName
NoBody == [companyId |-> "", companyName |-> <<>>]

NoResponse ==
  [status |-> 0, error |-> "", extractedText |-> <<>>, companyOptions |-> <<>>,
   documentLength |-> 0, textQuality |-> analyzeTextQuality(<<>>)]

VARIABLES
  externalOcrAvailable,  \* form-data and node-fetch were loaded at startup
  localOcrAvailable,     \* tesseract.js, pdf2pic and sharp were loaded at startup
  mimetype,              \* req.file.mimetype as declared by the client
  pc,                    \* position of the request in the handler
  fileExists,            \* the uploaded file is in uploads/
  text,                  \* text of parseDocumentWithOptimizedOCR
  error,                 \* message of the exception in flight, "" if none
  thrown,                \* messages of all exceptions thrown so far
  attempts,              \* strategies tried so far, in order
  ocrCaller,             \* call site the OCR runner returns to
  strategyIndex,         \* position of the runner's loop over ocrStrategies
  strategyLog,           \* requests of the current runner call with their outcome
  ocrResult,             \* value the runner returned
  documentText,          \* documentText of the handler
  foundNames,            \* foundNames of the extractor that ran last
  companyOptions,        \* companyOptions of the handler
  calls,                 \* extractors the handler has called, in order
  response,              \* response sent to the client
  tempFiles,             \* files of temp/ with the page image they hold
  jobs,                  \* calls of performLocalOCR in progress, by document
  hubspotToken,          \* process.env.HUBSPOT_ACCESS_TOKEN
  body,                  \* req.body of a request that updates the CRM
  crmRequests            \* PATCH requests sent to api.hubapi.com, in order

vars ==
  << externalOcrAvailable, localOcrAvailable, mimetype, pc, fileExists, text, error,
     thrown, attempts, ocrCaller, strategyIndex, strategyLog, ocrResult, documentText,
     foundNames, companyOptions, calls, response, tempFiles, jobs, hubspotToken, body,
     crmRequests >>

localOcrVars == << tempFiles, jobs >>

crmVars == << hubspotToken, body, crmRequests >>

\* the variables of a request to /api/extract-names
requestVars ==
  << externalOcrAvailable, localOcrAvailable, mimetype, pc, fileExists, text, error,
     thrown, attempts, ocrCaller, strategyIndex, strategyLog, ocrResult, documentText,
     foundNames, companyOptions, calls, response >>

capabilityVars == << externalOcrAvailable, localOcrAvailable, mimetype >>

ocrVars == << ocrCaller, strategyIndex, strategyLog, ocrResult >>

handlerVars == << documentText, foundNames, companyOptions, calls, response >>

\* the quality gate of the design: at least 15% readable, 10 characters and
\* 5 valid words
AcceptableText(t) ==
  LET quality == analyzeTextQuality(t)
  IN  quality.readableRatio >= 15 /\ Len(t) >= 10 /\ quality.validWordCount >= 5

\* one entry of the audit trail
Attempt(strategy, profile, acceptable) ==
  [strategy |-> strategy, profile |-> profile, acceptable |-> acceptable]

Init ==
  /\ externalOcrAvailable \in BOOLEAN
  /\ localOcrAvailable \in BOOLEAN
  /\ mimetype \in MimeTypes
  /\ pc = "request"
  /\ fileExists = FALSE
  /\ text = <<>>
  /\ error = ""
  /\ thrown = {}
  /\ attempts = <<>>
  /\ ocrCaller = ""
  /\ strategyIndex = 0
  /\ strategyLog = <<>>
  /\ ocrResult = NoOcrResult
  /\ documentText = <<>>
  /\ foundNames = <<>>
  /\ companyOptions = <<>>
  /\ calls = <<>>
  /\ response = NoResponse
  /\ tempFiles = <<>>
  /\ jobs = <<>>
  /\ hubspotToken = ""
  /\ body = NoBody
  /\ crmRequests = <<>>

\* allowedTypes of upload.fileFilter
allowedTypes ==
  {Pdf, Docx, Msword}
    \cup (IF externalOcrAvailable \/ localOcrAvailable THEN ImageTypes ELSE {})

\* `throw new Error(message)` in parseDocumentWithOptimizedOCR outside the
\* inner try block: the outer catch block receives it
ThrowToHandler(message) ==
  /\ error' = message
  /\ thrown' = thrown \cup {message}
  /\ pc' = "parse_throw"

\* the call performExternalOCROptimized(filePath, mimetype) up to the loop
CallExternalOCR(caller) ==
  /\ ocrCaller' = caller
  /\ strategyLog' = <<>>
  /\ ocrResult' = NoOcrResult
  /\ IF externalOcrAvailable
     THEN /\ strategyIndex' = 1
          /\ pc' = "ocr_strategy"
          /\ error' = ""
          /\ UNCHANGED thrown
     ELSE /\ strategyIndex' = 0
          /\ pc' = "ocr_return"
          /\ error' = ExternalUnavailableError
          /\ thrown' = thrown \cup {ExternalUnavailableError}

\* multer stores the file if fileFilter accepts it; the handler answers 400
\* when there is no file
ReceiveRequest ==
  /\ pc = "request"
  /\ IF mimetype \in allowedTypes
     THEN /\ fileExists' = TRUE
          /\ pc' = "parse"
          /\ UNCHANGED response
     ELSE /\ response' = [NoResponse EXCEPT !.status = 400, !.error = NoFileError]
          /\ pc' = "done"
          /\ UNCHANGED fileExists
  /\ UNCHANGED << capabilityVars, localOcrVars, crmVars, text, error, thrown, attempts, ocrVars,
                  documentText, foundNames, companyOptions, calls >>

\* parseDocumentWithOptimizedOCR, case 'application/pdf'
ParsePdf ==
  /\ pc = "parse"
  /\ mimetype = Pdf
  /\ pc' = "pdf_method1"
  /\ UNCHANGED << capabilityVars, localOcrVars, crmVars, fileExists, text, error, thrown, attempts, ocrVars,
                  handlerVars >>

\* parseDocumentWithOptimizedOCR, the image cases
ParseImage ==
  /\ pc = "parse"
  /\ mimetype \in ImageTypes
  /\ IF externalOcrAvailable
     THEN CallExternalOCR("image")
     ELSE ThrowToHandler(ImageRequiresOcrError) /\ UNCHANGED ocrVars
  /\ UNCHANGED << capabilityVars, localOcrVars, crmVars, fileExists, text, attempts, handlerVars >>

\* the punctuation of \x20-\x7E except the backquote, which no text of the
\* model holds
AsciiPunct ==
  {"!", "\"", "#", "$", "%", "&", "'", "(", ")", "*", "+", ",", "-", ".", "/", ":",
   ";", "<", "=", ">", "?", "@", "[", "\\", "]", "^", "_", "{", "|", "}", "~"}

\* [\x20-\x7E] of docBuffer.toString('utf8').replace(/[^\x20-\x7E]/g, ' ')
PrintableAscii == Letter \cup Digit \cup {" "} \cup AsciiPunct

\* variant of the default case that reads every other type as a Word 97 file
ParseTextDocumentLenient ==
  /\ pc = "parse"
  /\ mimetype \notin {Pdf} \cup ImageTypes
  /\ IF mimetype = Docx
     THEN \E docxResult \in DocxOutcomes :
            IF docxResult.threw
            THEN ThrowToHandler(MammothError) /\ UNCHANGED << text, attempts >>
            ELSE /\ text' = docxResult.text
                 /\ attempts' = Append(attempts,
                                  Attempt("native", 0, AcceptableText(docxResult.text)))
                 /\ pc' = "final_gate"
                 /\ UNCHANGED << error, thrown >>
     ELSE \E docBuffer \in DocBufferOutcomes :
            /\ text' = BlankOutside(docBuffer, PrintableAscii)
            /\ attempts' = Append(attempts,
                             Attempt("native", 0,
                                     AcceptableText(BlankOutside(docBuffer, PrintableAscii))))
            /\ pc' = "final_gate"
            /\ UNCHANGED << error, thrown >>
  /\ UNCHANGED << capabilityVars, localOcrVars, crmVars, fileExists, ocrVars, handlerVars >>

\* parseDocumentWithOptimizedOCR, the default case
ParseTextDocument ==
  /\ pc = "parse"
  /\ mimetype \notin {Pdf} \cup ImageTypes
  /\ IF mimetype = Docx
     THEN \E docxResult \in DocxOutcomes :
            IF docxResult.threw
            THEN ThrowToHandler(MammothError) /\ UNCHANGED << text, attempts >>
            ELSE /\ text' = docxResult.text
                 /\ attempts' = Append(attempts,
                                  Attempt("native", 0, AcceptableText(docxResult.text)))
                 /\ pc' = "final_gate"
                 /\ UNCHANGED << error, thrown >>
     ELSE IF mimetype = Msword
     THEN \E docBuffer \in DocBufferOutcomes :
            /\ text' = BlankOutside(docBuffer, PrintableAscii)
            /\ attempts' = Append(attempts,
                             Attempt("native", 0,
                                     AcceptableText(BlankOutside(docBuffer, PrintableAscii))))
            /\ pc' = "final_gate"
            /\ UNCHANGED << error, thrown >>
     ELSE ThrowToHandler(UnsupportedTypeError) /\ UNCHANGED << text, attempts >>
  /\ UNCHANGED << capabilityVars, localOcrVars, crmVars, fileExists, ocrVars, handlerVars >>

(***************************************************************************)
(* parsePdfWithFallbacks.                                                  *)
(***************************************************************************)
\* `return text` of parsePdfWithFallbacks
ReturnPdfText(t) ==
  /\ text' = t
  /\ pc' = "pdf_quality"

\* methods 1 and 2: pdf-parse, accepted when it yields more than 50 characters
PdfParseMethod(strategy, next) ==
  /\ \E pdfData \in PdfParseOutcomes :
       /\ attempts' = Append(attempts,
                        Attempt(strategy, 0, ~pdfData.threw /\ AcceptableText(pdfData.text)))
       /\ IF ~pdfData.threw /\ Len(pdfData.text) > 50
          THEN ReturnPdfText(pdfData.text)
          ELSE pc' = next /\ UNCHANGED text
  /\ UNCHANGED << capabilityVars, localOcrVars, crmVars, fileExists, error, thrown, ocrVars, handlerVars >>

PdfMethod1 ==
  /\ pc = "pdf_method1"
  /\ PdfParseMethod("native", "pdf_method2")

PdfMethod2 ==
  /\ pc = "pdf_method2"
  /\ PdfParseMethod("enhanced", "pdf_method3")

\* method 3: the buffer scan, accepted when the combined text has more than
\* 10 characters
PdfMethod3 ==
  /\ pc = "pdf_method3"
  /\ \E scan \in ScrapeOutcomes :
       /\ attempts' = Append(attempts,
                        Attempt("scrape", 0, ~scan.threw /\ AcceptableText(scan.text)))
       /\ IF ~scan.threw /\ Len(scan.text) > 10
          THEN ReturnPdfText(scan.text)
          ELSE pc' = "pdf_method4" /\ UNCHANGED text
  /\ UNCHANGED << capabilityVars, localOcrVars, crmVars, fileExists, error, thrown, ocrVars, handlerVars >>

\* method 4: the external OCR runner, if its dependencies were loaded
PdfMethod4 ==
  /\ pc = "pdf_method4"
  /\ IF externalOcrAvailable
     THEN CallExternalOCR("pdf_method4")
     ELSE pc' = "pdf_method5" /\ UNCHANGED << error, thrown, ocrVars >>
  /\ UNCHANGED << capabilityVars, localOcrVars, crmVars, fileExists, text, attempts, handlerVars >>

\* method 4 after the runner: its text is accepted when longer than 20
\* characters; an exception of the runner is caught and logged
PdfMethod4Return ==
  /\ pc = "ocr_return"
  /\ ocrCaller = "pdf_method4"
  /\ IF error = "" /\ Len(ocrResult.text) > 20
     THEN ReturnPdfText(ocrResult.text)
     ELSE pc' = "pdf_method5" /\ UNCHANGED text
  /\ error' = ""
  /\ strategyLog' = <<>>
  /\ UNCHANGED << capabilityVars, localOcrVars, crmVars, fileExists, thrown, attempts, ocrCaller, strategyIndex,
                  ocrResult, handlerVars >>

\* [\w\s&\.\-',()], the characters the cleanup of performLocalOCR keeps
LocalKeptChar == WordChar \cup WhiteSpace \cup {"&", ".", "-", "'", ",", "(", ")"}

\* cleanedText of performLocalOCR
localCleanedText(allOCRText) ==
  trim(CollapseWhitespace(BlankOutside(CollapseWhitespace(allOCRText), LocalKeptChar)))

\* performLocalOCR as method 5 uses it: it throws when recognition fails or
\* when no page yields text
performLocalOCR(outcome) ==
  IF outcome.threw \/ Len(trim(outcome.text)) = 0
  THEN Throws
  ELSE Returns(localCleanedText(outcome.text))

\* method 5: the local engine, accepted when its text is longer than 20
\* characters; when it is missing or fails too, the diagnostic is thrown
\* and the catch block of parseDocumentWithOptimizedOCR receives it
PdfMethod5 ==
  /\ pc = "pdf_method5"
  /\ IF localOcrAvailable
     THEN \E outcome \in LocalOcrOutcomes :
            LET ocrText == performLocalOCR(outcome)
            IN  /\ attempts' = Append(attempts,
                                 Attempt("local", 0,
                                         ~ocrText.threw /\ AcceptableText(ocrText.text)))
                /\ IF ~ocrText.threw /\ Len(ocrText.text) > 20
                   THEN ReturnPdfText(ocrText.text) /\ UNCHANGED << error, thrown >>
                   ELSE /\ pc' = "pdf_catch"
                        /\ error' = ExhaustedDiagnostic
                        /\ thrown' = thrown \cup {ExhaustedDiagnostic}
                        /\ UNCHANGED text
     ELSE /\ pc' = "pdf_catch"
          /\ error' = ExhaustedDiagnostic
          /\ thrown' = thrown \cup {ExhaustedDiagnostic}
          /\ UNCHANGED << text, attempts >>
  /\ UNCHANGED << capabilityVars, localOcrVars, crmVars, fileExists, ocrVars, handlerVars >>

(***************************************************************************)
(* parseDocumentWithOptimizedOCR around parsePdfWithFallbacks.             *)
(***************************************************************************)
\* the quality check on the text parsePdfWithFallbacks returned
PdfQuality ==
  /\ pc = "pdf_quality"
  /\ LET quality == analyzeTextQuality(text)
     IN  IF quality.readableRatio > 70 /\ quality.validWordCount > 10
         THEN /\ pc' = "parse_return"
              /\ UNCHANGED << error, thrown >>
         ELSE /\ pc' = "pdf_catch"
              /\ error' = PoorQualityError
              /\ thrown' = thrown \cup {PoorQualityError}
  /\ UNCHANGED << capabilityVars, localOcrVars, crmVars, fileExists, text, attempts, ocrVars, handlerVars >>

\* catch (pdfError): the caught error is dropped and the runner is called
PdfCatch ==
  /\ pc = "pdf_catch"
  /\ IF externalOcrAvailable
     THEN CallExternalOCR("pdf_catch")
     ELSE ThrowToHandler(PdfRequiresOcrError) /\ UNCHANGED ocrVars
  /\ UNCHANGED << capabilityVars, localOcrVars, crmVars, fileExists, text, attempts, handlerVars >>

\* the runner returns into the catch block: its text is returned as it is
PdfCatchReturn ==
  /\ pc = "ocr_return"
  /\ ocrCaller = "pdf_catch"
  /\ IF error = ""
     THEN text' = ocrResult.text /\ pc' = "parse_return"
     ELSE pc' = "parse_throw" /\ UNCHANGED text
  /\ strategyLog' = <<>>
  /\ UNCHANGED << capabilityVars, localOcrVars, crmVars, fileExists, error, thrown, attempts, ocrCaller,
                  strategyIndex, ocrResult, handlerVars >>

\* the runner returns into the image case
ImageReturn ==
  /\ pc = "ocr_return"
  /\ ocrCaller = "image"
  /\ IF error = ""
     THEN text' = ocrResult.text /\ pc' = "final_gate"
     ELSE pc' = "parse_throw" /\ UNCHANGED text
  /\ strategyLog' = <<>>
  /\ UNCHANGED << capabilityVars, localOcrVars, crmVars, fileExists, error, thrown, attempts, ocrCaller,
                  strategyIndex, ocrResult, handlerVars >>

\* the check behind the switch, reached by images, DOCX and DOC
FinalGate ==
  /\ pc = "final_gate"
  /\ LET finalQuality == analyzeTextQuality(text)
     IN  IF Len(text) < 10 \/ finalQuality.readableRatio < 15
         THEN ThrowToHandler(TextQualityError)
         ELSE pc' = "parse_return" /\ UNCHANGED << error, thrown >>
  /\ UNCHANGED << capabilityVars, localOcrVars, crmVars, fileExists, text, attempts, ocrVars, handlerVars >>

\* the locals of parseDocumentWithOptimizedOCR and of the functions it
\* called go out of scope when it returns or throws
DropLocals ==
  /\ text' = <<>>
  /\ attempts' = <<>>
  /\ ocrCaller' = ""
  /\ strategyIndex' = 0
  /\ strategyLog' = <<>>
  /\ ocrResult' = NoOcrResult

\* `return text`: documentText of the handler receives the text
ParseReturn ==
  /\ pc = "parse_return"
  /\ documentText' = text
  /\ DropLocals
  /\ pc' = "extract_enhanced"
  /\ UNCHANGED << capabilityVars, localOcrVars, crmVars, fileExists, error, thrown, foundNames, companyOptions,
                  calls, response >>

\* the outer catch block logs the error and throws it again
ParseRethrow ==
  /\ pc = "parse_throw"
  /\ DropLocals
  /\ pc' = "handler_catch"
  /\ UNCHANGED << capabilityVars, localOcrVars, crmVars, fileExists, error, thrown, handlerVars >>

(***************************************************************************)
(* performExternalOCROptimized: the loop over ocrStrategies.               *)
(***************************************************************************)
RECURSIVE concatPages(_)
\* allText: every page's ParsedText followed by two newlines
concatPages(pages) ==
  IF Len(pages) = 0 THEN <<>>
  ELSE Head(pages) \o <<"\n", "\n">> \o concatPages(Tail(pages))

\* variant of the loop body without the three quality thresholds
strategyOutcomeUngated(ocrResponse) ==
  IF ocrResponse.kind # "parsed" THEN ocrResponse.kind
  ELSE IF Len(ocrResponse.pages) = 0 THEN "noResults"
  ELSE "accepted"

\* what one iteration of the loop does with the answer to its request:
\* "accepted" returns from the runner, everything else continues the loop
strategyOutcome(ocrResponse) ==
  IF ocrResponse.kind # "parsed" THEN ocrResponse.kind
  ELSE IF Len(ocrResponse.pages) = 0 THEN "noResults"
  ELSE LET allText == concatPages(ocrResponse.pages)
           overallQuality == analyzeTextQuality(allText)
       IN  IF overallQuality.readableRatio < 20 THEN "tooPoor"
           ELSE IF Len(allText) < 20 THEN "tooShort"
           ELSE IF overallQuality.validWordCount < 5 THEN "fewWords"
           ELSE "accepted"

\* the value an accepting iteration returns
strategyResult(index, ocrResponse) ==
  LET allText == concatPages(ocrResponse.pages)
      cleanedText == applyIntelligentCleanup(allText, analyzeTextQuality(allText))
      finalQuality == analyzeTextQuality(cleanedText)
  IN  [text |-> cleanedText,
       rawText |-> allText,
       method |-> ocrStrategies[index],
       quality |-> finalQuality.readableRatio,
       validWords |-> finalQuality.validWordCount]

\* the entry of strategyLog for one request: the strategy, what the loop did
\* with the answer, and the figures of allText it decided on
LogEntry(index, ocrResponse) ==
  LET allText == concatPages(ocrResponse.pages)
      overallQuality == analyzeTextQuality(allText)
  IN  [strategy |-> index,
       outcome |-> strategyOutcome(ocrResponse),
       readableRatio |-> overallQuality.readableRatio,
       length |-> Len(allText),
       validWordCount |-> overallQuality.validWordCount]

\* variant of the loop in which a processing error leaves the runner
afterStrategyAborting(index, outcome) ==
  IF outcome = "accepted"
  THEN [pc |-> "ocr_return", strategyIndex |-> index, error |-> ""]
  ELSE IF outcome = "processingError"
  THEN [pc |-> "ocr_return", strategyIndex |-> index, error |-> AllStrategiesFailedError]
  ELSE [pc |-> "ocr_strategy", strategyIndex |-> index + 1, error |-> ""]

\* where the loop goes after an iteration: `return` when the text was
\* accepted, `continue` with the next strategy in every other case
afterStrategy(index, outcome) ==
  IF outcome = "accepted"
  THEN [pc |-> "ocr_return", strategyIndex |-> index, error |-> ""]
  ELSE [pc |-> "ocr_strategy", strategyIndex |-> index + 1, error |-> ""]

\* one iteration: the request of strategy strategyIndex and its evaluation
OcrStrategy ==
  /\ pc = "ocr_strategy"
  /\ strategyIndex <= Len(ocrStrategies)
  /\ \E ocrResponse \in OcrResponses :
       LET outcome == strategyOutcome(ocrResponse)
           after == afterStrategy(strategyIndex, outcome)
       IN  /\ strategyLog' = Append(strategyLog, LogEntry(strategyIndex, ocrResponse))
           /\ attempts' = Append(attempts,
                            Attempt("ocr", strategyIndex,
                                    /\ ocrResponse.kind = "parsed"
                                    /\ AcceptableText(concatPages(ocrResponse.pages))))
           /\ ocrResult' = IF outcome = "accepted"
                           THEN strategyResult(strategyIndex, ocrResponse)
                           ELSE ocrResult
           /\ pc' = after.pc
           /\ strategyIndex' = after.strategyIndex
           /\ error' = after.error
  /\ UNCHANGED << capabilityVars, localOcrVars, crmVars, fileExists, text, thrown, ocrCaller, handlerVars >>

\* behind the loop: no strategy was accepted
OcrExhausted ==
  /\ pc = "ocr_strategy"
  /\ strategyIndex > Len(ocrStrategies)
  /\ error' = AllStrategiesFailedError
  /\ thrown' = thrown \cup {AllStrategiesFailedError}
  /\ pc' = "ocr_return"
  /\ UNCHANGED << capabilityVars, localOcrVars, crmVars, fileExists, text, attempts, ocrVars, handlerVars >>

(***************************************************************************)
(* POST /api/extract-names behind the text extraction.                     *)
(***************************************************************************)
\* one entry of calls: the extractor and the number of candidates it returned
Call(extractor, options) == [extractor |-> extractor, returned |-> Len(options)]

\* variant of the handler that always runs the standard extractor
afterEnhancedAlways(options) == "extract_standard"

\* if (companyOptions.length === 0): the standard extractor runs next,
\* otherwise the handler answers
afterEnhanced(options) ==
  IF Len(options) = 0 THEN "extract_standard" ELSE "respond"

\* companyOptions = extractCompanyNamesEnhanced(documentText)
ExtractEnhanced ==
  /\ pc = "extract_enhanced"
  /\ \E raw \in {foundNamesEnhanced(documentText)} :
       \E options \in {rankAndTruncate(uniqueNames(raw))} :
         /\ foundNames' = raw
         /\ companyOptions' = options
         /\ calls' = Append(calls, Call("extractCompanyNamesEnhanced", options))
         /\ pc' = afterEnhanced(options)
  /\ UNCHANGED << capabilityVars, localOcrVars, crmVars, fileExists, text, error, thrown, attempts, ocrVars,
                  documentText, response >>

\* if (companyOptions.length === 0) companyOptions = extractCompanyNames(documentText)
ExtractStandard ==
  /\ pc = "extract_standard"
  /\ \E raw \in {foundNamesStandard(documentText)} :
       \E options \in {rankAndTruncate(uniqueNames(raw))} :
         /\ foundNames' = raw
         /\ companyOptions' = options
         /\ calls' = Append(calls, Call("extractCompanyNames", options))
  /\ pc' = "respond"
  /\ UNCHANGED << capabilityVars, localOcrVars, crmVars, fileExists, text, error, thrown, attempts, ocrVars,
                  documentText, response >>

\* the uploaded file is removed, then the handler answers 400 with an
\* excerpt of the text when there is no candidate, and 200 otherwise
Respond ==
  /\ pc = "respond"
  /\ fileExists' = FALSE
  /\ response' =
       IF Len(companyOptions) = 0
       THEN [status |-> 400,
             error |-> NoNamesError,
             extractedText |-> substring0(documentText, 1000) \o <<".", ".", ".">>,
             companyOptions |-> <<>>,
             documentLength |-> 0,
             textQuality |-> analyzeTextQuality(documentText)]
       ELSE [status |-> 200,
             error |-> "",
             extractedText |-> <<>>,
             companyOptions |-> companyOptions,
             documentLength |-> Len(documentText),
             textQuality |-> analyzeTextQuality(documentText)]
  /\ pc' = "done"
  /\ UNCHANGED << capabilityVars, localOcrVars, crmVars, text, error, thrown, attempts, ocrVars, documentText,
                  foundNames, companyOptions, calls >>

\* catch (error): the uploaded file is removed and the handler answers 500
\* with the message of the error
HandlerCatch ==
  /\ pc = "handler_catch"
  /\ fileExists' = FALSE
  /\ response' = [NoResponse EXCEPT !.status = 500, !.error = error]
  /\ pc' = "done"
  /\ UNCHANGED << capabilityVars, localOcrVars, crmVars, text, error, thrown, attempts, ocrVars, documentText,
                  foundNames, companyOptions, calls >>

Next ==
  \/ ReceiveRequest
  \/ ParsePdf
  \/ ParseImage
  \/ ParseTextDocument
  \/ PdfMethod1
  \/ PdfMethod2
  \/ PdfMethod3
  \/ PdfMethod4
  \/ PdfMethod4Return
  \/ PdfMethod5
  \/ PdfQuality
  \/ PdfCatch
  \/ PdfCatchReturn
  \/ ImageReturn
  \/ FinalGate
  \/ ParseReturn
  \/ ParseRethrow
  \/ OcrStrategy
  \/ OcrExhausted
  \/ ExtractEnhanced
  \/ ExtractStandard
  \/ Respond
  \/ HandlerCatch

Spec == Init /\ [][Next]_vars

(***************************************************************************)
(* Properties of the extractors' result.                                   *)
(***************************************************************************)
\* C1: whichever extractor ran last, the list it returned has at most five
\* entries and is ordered by non-increasing confidence.
C1_AtMostFiveSorted ==
  /\ Len(companyOptions) <= 5
  /\ \A i \in 1..(Len(companyOptions) - 1) :
       companyOptions[i].confidence >= companyOptions[i + 1].confidence

\* the enhanced extractor found more than five unique names, the first of
\* them not the most confident one, and returned five
C1_Witness ==
  /\ Len(calls) = 1
  /\ Len(uniqueNames(foundNames)) > 5
  /\ Len(companyOptions) = 5
  /\ companyOptions[1].confidence > companyOptions[5].confidence
  /\ companyOptions[1].confidence > uniqueNames(foundNames)[1].confidence

\* the highest confidence among the found names that normalize to key
MaxConfidenceOf(key) ==
  LET group == {i \in DOMAIN foundNames : normalizedName(foundNames[i].name) = key}
  IN  CHOOSE c \in {foundNames[i].confidence : i \in group} :
        \A i \in group : foundNames[i].confidence <= c

\* C2: no two returned candidates have the same normalized name, and each
\* returned candidate carries the highest confidence among the found names
\* with its normalized name.
C2_UniqueWithMaxConfidence ==
  /\ \A i, j \in DOMAIN companyOptions :
       i # j => normalizedName(companyOptions[i].name) # normalizedName(companyOptions[j].name)
  /\ \A i \in DOMAIN companyOptions :
       companyOptions[i].confidence = MaxConfidenceOf(normalizedName(companyOptions[i].name))

\* two found names that differ as strings but normalize to the same key
\* were collapsed into the more confident one, and a found name was replaced
\* by a later, more confident one of its group
C2_Witness ==
  /\ pc = "respond"
  /\ \E i, j \in DOMAIN foundNames :
       /\ foundNames[i].name # foundNames[j].name
       /\ normalizedName(foundNames[i].name) = normalizedName(foundNames[j].name)
       /\ foundNames[i].confidence < foundNames[j].confidence
       /\ \E k \in DOMAIN companyOptions : companyOptions[k].name = foundNames[j].name
       /\ \A k \in DOMAIN companyOptions : companyOptions[k].name # foundNames[i].name
  /\ \E i, j \in DOMAIN foundNames :
       /\ i < j
       /\ normalizedName(foundNames[i].name) = normalizedName(foundNames[j].name)
       /\ foundNames[i].confidence < foundNames[j].confidence

(***************************************************************************)
(* Properties of the text extraction.                                      *)
(***************************************************************************)
\* position of a strategy in the order native, enhanced native, scrape, OCR
StrategyRank(strategy) ==
  CASE strategy = "native" -> 1
    [] strategy = "enhanced" -> 2
    [] strategy = "scrape" -> 3
    [] OTHER -> 4

\* C3: for a PDF the strategies are attempted in the order native, enhanced
\* native, scrape, OCR, and no strategy is attempted after an attempt whose
\* text passed the quality gate.
C3_FirstAcceptableReturned ==
  mimetype = Pdf =>
    \A i, j \in DOMAIN attempts :
      i < j => /\ StrategyRank(attempts[i].strategy) <= StrategyRank(attempts[j].strategy)
               /\ ~attempts[i].acceptable

\* C4: within one call of the runner the k-th request uses the k-th profile,
\* a request is issued only while no earlier one was accepted, and a request
\* is accepted exactly when its text has readableRatio >= 20, at least 20
\* characters and at least 5 valid words.
C4_ProfilesInOrder ==
  /\ Len(strategyLog) <= Len(ocrStrategies)
  /\ \A k \in DOMAIN strategyLog :
       /\ strategyLog[k].strategy = k
       /\ strategyLog[k].outcome = "accepted" => k = Len(strategyLog)
       /\ strategyLog[k].outcome = "accepted" <=>
            /\ strategyLog[k].readableRatio >= 20
            /\ strategyLog[k].length >= 20
            /\ strategyLog[k].validWordCount >= 5
  /\ pc = "ocr_strategy" => \A k \in DOMAIN strategyLog : strategyLog[k].outcome # "accepted"

\* the runner returned the text of its third request after a request that
\* failed and one whose text was rejected for its quality
C4_Witness ==
  /\ pc = "ocr_return"
  /\ error = ""
  /\ Len(strategyLog) = 3
  /\ strategyLog[1].outcome = "httpError"
  /\ strategyLog[2].outcome = "tooPoor"
  /\ strategyLog[3].outcome = "accepted"
  /\ ocrResult.method = ocrStrategies[3]

\* C5: a failed request never ends the runner: it throws only after all
\* profiles were requested and none was accepted, and otherwise returns the
\* text of the accepted request; so after a processing error on profile 1
\* and a text of readableRatio 10 on profile 2, the text of profile 3 with
\* readableRatio 85 is returned.
C5_FailureNeverAborts ==
  /\ pc = "ocr_strategy" => strategyIndex = Len(strategyLog) + 1
  /\ (pc = "ocr_return" /\ error # "") =>
       /\ Len(strategyLog) = Len(ocrStrategies)
       /\ error = AllStrategiesFailedError
  /\ (pc = "ocr_return" /\ error = "") =>
       /\ strategyLog # <<>>
       /\ Len(ocrResult.rawText) = strategyLog[Len(strategyLog)].length
       /\ ocrResult.method = ocrStrategies[Len(strategyLog)]
  /\ ( /\ Len(strategyLog) = 3
       /\ strategyLog[1].outcome = "processingError"
       /\ strategyLog[2].readableRatio = 10
       /\ strategyLog[3].readableRatio = 85 ) =>
       /\ pc = "ocr_return"
       /\ error = ""
       /\ ocrResult.rawText = concatPages(<<OcrBoundaryPage>>)

\* the scenario: processing error, then readableRatio 10, then readableRatio
\* 85, and the runner has returned the third text
C5_Witness ==
  /\ pc = "ocr_return"
  /\ Len(strategyLog) = 3
  /\ strategyLog[1].outcome = "processingError"
  /\ strategyLog[2].outcome = "tooPoor"
  /\ strategyLog[2].readableRatio = 10
  /\ strategyLog[3].readableRatio = 85
  /\ ocrResult.text = applyIntelligentCleanup(concatPages(<<OcrBoundaryPage>>),
                                              analyzeTextQuality(concatPages(<<OcrBoundaryPage>>)))

\* C6: while one document is processed no OCR profile is requested twice.
C6_ProfileAtMostOnce ==
  \A i, j \in DOMAIN attempts :
    (i # j /\ attempts[i].strategy = "ocr" /\ attempts[j].strategy = "ocr")
      => attempts[i].profile # attempts[j].profile

\* C7: when the text extraction of a PDF or an image fails at the OCR stage
\* because the remote service is unavailable or all its profiles failed,
\* and the local engine is available, the local engine was attempted.
C7_LocalFallbackAttempted ==
  ( /\ pc = "parse_throw"
    /\ mimetype \in {Pdf} \cup ImageTypes
    /\ localOcrAvailable
    /\ error \in {ImageRequiresOcrError, PdfRequiresOcrError, AllStrategiesFailedError} )
    => \E i \in DOMAIN attempts : attempts[i].strategy = "local"

(***************************************************************************)
(* Properties of the handler.                                              *)
(***************************************************************************)
\* C8: the handler calls the enhanced extractor on the extracted text, calls
\* the conservative extractor exactly when the enhanced one returned no
\* candidate, and answers that no names were found, with the first 1000
\* characters of the text as excerpt, only after both returned none.
C8_ConservativeIffEnhancedEmpty ==
  /\ Len(calls) <= 2
  /\ pc = "extract_enhanced" => calls = <<>>
  /\ Len(calls) >= 1 =>
       /\ calls[1].extractor = "extractCompanyNamesEnhanced"
       /\ pc \in {"extract_standard", "respond", "done"}
       /\ (pc = "extract_standard") <=> (Len(calls) = 1 /\ calls[1].returned = 0)
  /\ Len(calls) = 2 =>
       /\ calls[2].extractor = "extractCompanyNames"
       /\ calls[1].returned = 0
  /\ response.error = NoNamesError =>
       /\ Len(calls) = 2
       /\ calls[1].returned = 0
       /\ calls[2].returned = 0
       /\ Len(response.extractedText) <= 1003
       /\ SubSeq(response.extractedText, 1, Min(1000, Len(documentText)))
            = SubSeq(documentText, 1, Min(1000, Len(documentText)))
  /\ (pc = "done" /\ response.status = 200) =>
       /\ calls[Len(calls)].returned > 0
       /\ response.companyOptions = companyOptions

\* both extractors returned nothing for a text of more than 1000 characters
\* and the handler has answered with the excerpt
C8_Witness ==
  /\ pc = "done"
  /\ response.error = NoNamesError
  /\ Len(calls) = 2
  /\ Len(documentText) > 1000
  /\ Len(response.extractedText) = 1003

\* C9: when every strategy has failed for a PDF, the error the handler
\* receives is the diagnostic of the exhausted strategies.
C9_DiagnosticReachesCaller ==
  (pc = "handler_catch" /\ mimetype = Pdf /\ ExhaustedDiagnostic \in thrown)
    => error = ExhaustedDiagnostic

\* C10: every text the extraction returns has readableRatio >= 15, at least
\* 10 characters and at least 5 valid words; a text of 25 symbols is not
\* returned.
C10_ReturnedTextAcceptable ==
  pc = "extract_enhanced" =>
    /\ AcceptableText(documentText)
    /\ documentText # DocxSymbols

(***************************************************************************)
(* The analyzer applied to every text of a bounded length.                 *)
(***************************************************************************)
MaxTextLen == 3

\* two letters, a digit, a blank, a character that is neither readable nor
\* a word character, and the underscore (a word character that is not
\* readable)
AnalyzerAlphabet == {"a", "b", "7", " ", "#", "_"}

AnalyzerTexts == UNION {[1..n -> AnalyzerAlphabet] : n \in 0..MaxTextLen}

AnalyzerInit ==
  /\ externalOcrAvailable = FALSE
  /\ localOcrAvailable = FALSE
  /\ mimetype = Pdf
  /\ pc = "analyze"
  /\ fileExists = FALSE
  /\ text \in AnalyzerTexts
  /\ error = ""
  /\ thrown = {}
  /\ attempts = <<>>
  /\ ocrCaller = ""
  /\ strategyIndex = 0
  /\ strategyLog = <<>>
  /\ ocrResult = NoOcrResult
  /\ documentText = <<>>
  /\ foundNames = <<>>
  /\ companyOptions = <<>>
  /\ calls = <<>>
  /\ response = NoResponse
  /\ tempFiles = <<>>
  /\ jobs = <<>>
  /\ hubspotToken = ""
  /\ body = NoBody
  /\ crmRequests = <<>>

\* const quality = analyzeTextQuality(text)
Analyze ==
  /\ pc = "analyze"
  /\ response' = [response EXCEPT !.textQuality = analyzeTextQuality(text)]
  /\ pc' = "analyzed"
  /\ UNCHANGED << capabilityVars, localOcrVars, crmVars, fileExists, text, error, thrown, attempts, ocrVars,
                  documentText, foundNames, companyOptions, calls >>

AnalyzerNext == Analyze

AnalyzerSpec == AnalyzerInit /\ [][AnalyzerNext]_vars

\* C11: for every text, the empty one included, analyzeTextQuality returns
\* readableRatio in [0,100] and garbledRatio in [0,1]; for the empty text
\* the result is exactly readableRatio 0, validWordCount 0, garbledRatio 1.
C11_RatiosInRange ==
  pc = "analyzed" =>
    LET quality == response.textQuality
    IN  /\ quality.readableRatio \in 0..100
        /\ quality.garbledRatio.den > 0
        /\ quality.garbledRatio.num \in 0..quality.garbledRatio.den
        /\ text = <<>> =>
             /\ DOMAIN quality = {"readableRatio", "validWordCount", "garbledRatio"}
             /\ quality.readableRatio = 0
             /\ quality.validWordCount = 0
             /\ quality.garbledRatio.num = quality.garbledRatio.den

\* the empty text has been analyzed
C11_Witness ==
  /\ pc = "analyzed"
  /\ text = <<>>
  /\ response.textQuality.garbledRatio = [num |-> 1, den |-> 1]

(***************************************************************************)
(* The confidence adjustment of server version 3.2.1, applied to matches   *)
(* of the standard extractor for every base confidence of a pattern.       *)
(***************************************************************************)
\* (fullText.match(new RegExp(escaped, 'gi')) || []).length from position i:
\* the occurrences of the literal in any letter case, left to right without
\* overlap
RECURSIVE occurrencesFrom(_, _, _)
occurrencesFrom(s, sub, i) ==
  IF Len(sub) = 0 THEN Len(s) + 2 - i
  ELSE LET at == {p \in i..(Len(s) - Len(sub) + 1) : OccursAt(sub, s, p)}
       IN  IF at = {} THEN 0
           ELSE 1 + occurrencesFrom(s, sub, (CHOOSE p \in at : \A q \in at : p <= q) + Len(sub))

occurrences(fullText, cleanedName) ==
  occurrencesFrom(toLowerCase(fullText), toLowerCase(cleanedName), 1)

\* confidence of calculateConfidence before the return statement
adjustedConfidence(match, fullText, baseConfidence, cleanedName) ==
  LET position == indexOf(toLowerCase(fullText), toLowerCase(match)) - 1
      nameLength == Len(cleanedName)
  IN  baseConfidence
        + Min(occurrences(fullText, cleanedName) * 3, 15)
        + (IF position < 200 THEN 10 ELSE IF position < 500 THEN 5 ELSE 0)
        + (IF nameLength >= 5 /\ nameLength <= 30 THEN 5 ELSE 0)
        - (IF nameLength < 3 THEN 15 ELSE 0)
        - (IF nameLength > 50 THEN 10 ELSE 0)

\* return Math.min(confidence, 100)
calculateConfidence(match, fullText, baseConfidence, cleanedName) ==
  Min(adjustedConfidence(match, fullText, baseConfidence, cleanedName), 100)

\* n characters of digits separated by single blanks
Filler(n) == [i \in 1..n |-> IF i % 2 = 1 THEN "0" ELSE " "]

\* matches of the 'Standard LLC' pattern with the text they were found in:
\* fullMatch is match[0], cleanedName the cleaned match[1]
ConfidenceSamples ==
  {[fullText |-> <<"A","."," ","L","L","C">>, fullMatch |-> <<"A","."," ","L","L","C">>, cleanedName |-> <<"A",".">>],
   [fullText |-> <<"A","c","m","e"," ","T","o","o","l"," ","L","L","C">>, fullMatch |-> <<"A","c","m","e"," ","T","o","o","l"," ","L","L","C">>, cleanedName |-> <<"A","c","m","e"," ","T","o","o","l">>],
   [fullText |-> <<"B","i","t"," ","L","L","C",","," ","B","i","t"," ","L","L","C",","," ","B","i","t"," ","L","L","C",","," ","B","i","t"," ","L","L","C",","," ","B","i","t"," ","L","L","C",","," ","B","i","t"," ","L","L","C">>, fullMatch |-> <<"B","i","t"," ","L","L","C">>, cleanedName |-> <<"B","i","t">>],
   [fullText |-> Filler(200) \o <<"A","c","m","e"," ","T","o","o","l"," ","L","L","C">>, fullMatch |-> <<"A","c","m","e"," ","T","o","o","l"," ","L","L","C">>, cleanedName |-> <<"A","c","m","e"," ","T","o","o","l">>],
   [fullText |-> Filler(500) \o <<"A","."," ","L","L","C">>, fullMatch |-> <<"A","."," ","L","L","C">>, cleanedName |-> <<"A",".">>]}

\* the confidence a pattern declares
BaseConfidences == 0..100

ConfidenceInit ==
  /\ externalOcrAvailable = FALSE
  /\ localOcrAvailable = FALSE
  /\ mimetype = Docx
  /\ pc = "match"
  /\ fileExists = FALSE
  /\ text \in {sample.fullText : sample \in ConfidenceSamples}
  /\ error = ""
  /\ thrown = {}
  /\ attempts = <<>>
  /\ ocrCaller = ""
  /\ strategyIndex = 0
  /\ strategyLog = <<>>
  /\ ocrResult = NoOcrResult
  /\ documentText = <<>>
  /\ foundNames = <<>>
  /\ companyOptions = <<>>
  /\ calls = <<>>
  /\ response = NoResponse
  /\ tempFiles = <<>>
  /\ jobs = <<>>
  /\ hubspotToken = ""
  /\ body = NoBody
  /\ crmRequests = <<>>

\* the body of the match loop of extractCompanyNames for one match of a
\* pattern: the candidate is pushed with the calculated confidence
PushCandidate ==
  /\ pc = "match"
  /\ \E sample \in ConfidenceSamples, baseConfidence \in BaseConfidences :
       /\ sample.fullText = text
       /\ foundNames' =
            <<[name |-> withEntityType(sample.cleanedName,
                                       entityTypeStandard(sample.fullMatch)),
               confidence |-> calculateConfidence(sample.fullMatch, text,
                                                  baseConfidence, sample.cleanedName),
               baseConfidence |-> baseConfidence,
               originalMatch |-> sample.fullMatch]>>
  /\ pc' = "matched"
  /\ UNCHANGED << capabilityVars, localOcrVars, crmVars, fileExists, text, error, thrown, attempts, ocrVars,
                  documentText, companyOptions, calls, response >>

ConfidenceNext == PushCandidate

ConfidenceSpec == ConfidenceInit /\ [][ConfidenceNext]_vars

Docs == {1, 2}

\* for (let page = 1; page <= 3; page++)
LastPage == 3

\* temp/page.<k>.png, the file pdf2pic writes for page k with
\* saveFilename "page" and savePath tempDir
pageImage(k) == [page |-> k, processed |-> FALSE]

\* imagePath + '_processed.png'
processedImagePath(imagePath) == [imagePath EXCEPT !.processed = TRUE]

\* a file written by job writer that holds page `page` of document doc
FileOf(writer, doc, page) == [writer |-> writer, doc |-> doc, page |-> page]

WriteFile(files, path, content) ==
  [f \in DOMAIN files \cup {path} |-> IF f = path THEN content ELSE files[f]]

\* fs.unlinkSync of the paths that exist
UnlinkFiles(files, paths) == [f \in DOMAIN files \ paths |-> files[f]]

NoImagesError == "No images available for local OCR processing"

NoReadableTextError == "Local OCR extracted no readable text"

StartedJob ==
  [pc |-> "convert", page |-> 1, imagePaths |-> <<>>, index |-> 0,
   allOCRText |-> <<>>, missing |-> FALSE, error |-> ""]

LocalOcrInit ==
  /\ externalOcrAvailable = FALSE
  /\ localOcrAvailable = TRUE
  /\ mimetype = Pdf
  /\ pc = "local_ocr"
  /\ fileExists = TRUE
  /\ text = <<>>
  /\ error = ""
  /\ thrown = {}
  /\ attempts = <<>>
  /\ ocrCaller = ""
  /\ strategyIndex = 0
  /\ strategyLog = <<>>
  /\ ocrResult = NoOcrResult
  /\ documentText = <<>>
  /\ foundNames = <<>>
  /\ companyOptions = <<>>
  /\ calls = <<>>
  /\ response = NoResponse
  /\ tempFiles = <<>>
  /\ jobs = [d \in Docs |-> StartedJob]
  /\ hubspotToken = ""
  /\ body = NoBody
  /\ crmRequests = <<>>

\* the end of the conversion loop: the throw of an empty imagePaths, or
\* the first image of the recognition loop
afterConversion(job) ==
  IF job.imagePaths = <<>>
  THEN [job EXCEPT !.pc = "thrown", !.error = NoImagesError]
  ELSE [job EXCEPT !.pc = "preprocess", !.index = 1]

\* await convert(page, { responseType: "image" }) and the rest of the loop
\* body: the page image is written and its path pushed, or the call throws
\* and the loop is left
ConvertPage(d) ==
  /\ jobs[d].pc = "convert"
  /\ \E converted \in BOOLEAN :
       IF converted
       THEN LET job == [jobs[d] EXCEPT !.imagePaths = Append(@, pageImage(jobs[d].page)),
                                       !.page = @ + 1]
            IN  /\ tempFiles' = WriteFile(tempFiles, pageImage(jobs[d].page),
                                          FileOf(d, d, jobs[d].page))
                /\ jobs' = [jobs EXCEPT ![d] = IF job.page > LastPage
                                                THEN afterConversion(job) ELSE job]
       ELSE /\ jobs' = [jobs EXCEPT ![d] = afterConversion(jobs[d])]
            /\ UNCHANGED tempFiles
  /\ UNCHANGED << requestVars, crmVars >>

\* the end of the body of the recognition loop: the next image, or the
\* cleanup of the temp images followed by the throw of an empty allOCRText
\* or the return
afterImage(job, files) ==
  IF job.index < Len(job.imagePaths)
  THEN [job |-> [job EXCEPT !.pc = "preprocess", !.index = @ + 1], files |-> files]
  ELSE [job |-> IF job.allOCRText = <<>>
                THEN [job EXCEPT !.pc = "thrown", !.error = NoReadableTextError]
                ELSE [job EXCEPT !.pc = "returned"],
        files |-> UnlinkFiles(files, {job.imagePaths[i] : i \in 1..Len(job.imagePaths)})]

\* await sharp(imagePath)...toFile(processedImagePath): the processed copy
\* of the image is written, or the call throws (the image is missing, or
\* sharp fails) and catch (ocrError) ends the body
PreprocessImage(d) ==
  /\ jobs[d].pc = "preprocess"
  /\ LET imagePath == jobs[d].imagePaths[jobs[d].index]
     IN  \E preprocessed \in BOOLEAN :
           IF imagePath \in DOMAIN tempFiles /\ preprocessed
           THEN /\ tempFiles' = WriteFile(tempFiles, processedImagePath(imagePath),
                                          [tempFiles[imagePath] EXCEPT !.writer = d])
                /\ jobs' = [jobs EXCEPT ![d].pc = "recognize"]
           ELSE LET job == [jobs[d] EXCEPT !.missing = @ \/ imagePath \notin DOMAIN tempFiles]
                    next == afterImage(job, tempFiles)
                IN  /\ jobs' = [jobs EXCEPT ![d] = next.job]
                    /\ tempFiles' = next.files
  /\ UNCHANGED << requestVars, crmVars >>

\* what Tesseract.recognize does with an image it can read
RecognizeOutcomes == {"text", "blank", "throws"}

\* await Tesseract.recognize(processedImagePath, 'eng', ...) and the rest of
\* the body: text is appended and the processed copy unlinked, or the call
\* throws (the copy is missing, or the recognition fails) and
\* catch (ocrError) ends the body
RecognizeImage(d) ==
  /\ jobs[d].pc = "recognize"
  /\ LET processed == processedImagePath(jobs[d].imagePaths[jobs[d].index])
     IN  \E outcome \in RecognizeOutcomes :
           LET threw == processed \notin DOMAIN tempFiles \/ outcome = "throws"
               job == IF threw
                      THEN [jobs[d] EXCEPT !.missing = @ \/ processed \notin DOMAIN tempFiles]
                      ELSE IF outcome = "text"
                      THEN [jobs[d] EXCEPT !.allOCRText =
                              Append(@, [doc |-> tempFiles[processed].doc,
                                         page |-> tempFiles[processed].page])]
                      ELSE jobs[d]
               files == IF threw THEN tempFiles ELSE UnlinkFiles(tempFiles, {processed})
               next == afterImage(job, files)
           IN  /\ jobs' = [jobs EXCEPT ![d] = next.job]
               /\ tempFiles' = next.files
  /\ UNCHANGED << requestVars, crmVars >>

LocalOcrNext ==
  \/ \E d \in Docs : ConvertPage(d)
  \/ \E d \in Docs : PreprocessImage(d)
  \/ \E d \in Docs : RecognizeImage(d)

LocalOcrSpec == LocalOcrInit /\ [][LocalOcrNext]_vars

Finished(d) == jobs[d].pc \in {"returned", "thrown"}

\* C13: every temporary file created while a document is processed with
\* local OCR (page images and their preprocessed copies) is deleted on every
\* exit path: when the processing of a document has returned or thrown, no
\* file it wrote is left in temp/.
C13_TempFilesDeleted ==
  \A d \in DOMAIN jobs :
    Finished(d) => \A f \in DOMAIN tempFiles : tempFiles[f].writer # d

\* C15: two documents processed concurrently do not interfere: no job
\* recognizes a page of the other document, finds one of its files deleted,
\* or has one of its page images overwritten by the other job, so the text of
\* each job is made of its own pages only.
C15_NoInterference ==
  \A d \in DOMAIN jobs :
    /\ \A i \in 1..Len(jobs[d].allOCRText) : jobs[d].allOCRText[i].doc = d
    /\ ~jobs[d].missing
    /\ ~Finished(d) =>
         \A i \in 1..Len(jobs[d].imagePaths) :
           jobs[d].imagePaths[i] \in DOMAIN tempFiles
             => tempFiles[jobs[d].imagePaths[i]].writer = d

(***************************************************************************)
(* POST /api/debug-detailed-ocr: the uploaded file is sent to OCR.space    *)
(* under each of four test configurations and the best result is reported. *)
(* results.recommendations and hasCompanyIndicators do not influence the   *)
(* control flow and are left out of the results.                           *)
(***************************************************************************)
testConfigurations ==
  <<"Default Engine 2", "Engine 1 Alternative", "High-Quality No Scaling",
    "Table Detection Mode">>

OcrUnavailableError == "OCR dependencies not available"

ReadFileError == "ENOENT: no such file or directory"

RECURSIVE joinPages(_)
\* ParsedResults.map(page => page.ParsedText || '').join('\n\n')
joinPages(pages) ==
  IF Len(pages) = 0 THEN <<>>
  ELSE IF Len(pages) = 1 THEN Head(pages)
  ELSE Head(pages) \o <<"\n", "\n">> \o joinPages(Tail(pages))

\* configResult after the body of the loop over testConfigurations
configResult(name, ocrResponse) ==
  LET failed(message) ==
        [name |-> name, success |-> FALSE, error |-> message, textLength |-> 0,
         quality |-> 0, validWords |-> 0, extractedText |-> <<>>]
  IN  IF ocrResponse.kind = "thrown" THEN failed("request failed")
      ELSE IF ocrResponse.kind = "httpError" THEN failed("HTTP 500")
      ELSE IF ocrResponse.kind = "processingError" THEN failed("Unknown OCR processing error")
      ELSE IF Len(ocrResponse.pages) = 0 THEN failed("No text detected")
      ELSE LET extractedText == trim(joinPages(ocrResponse.pages))
               quality == analyzeTextQuality(extractedText)
           IN  [name |-> name, success |-> TRUE, error |-> "",
                textLength |-> Len(extractedText),
                quality |-> quality.readableRatio,
                validWords |-> quality.validWordCount,
                extractedText |-> extractedText]

\* ten times (quality * 0.7) + (validWords * 0.3)
score(result) == 7 * result.quality + 3 * result.validWords

RECURSIVE bestOf(_, _, _)
\* successfulResults.reduce((best, current) => currentScore > bestScore ? current : best)
bestOf(best, results, i) ==
  IF i > Len(results) THEN best
  ELSE bestOf(IF score(results[i]) > score(best) THEN results[i] ELSE best, results, i + 1)

\* results.bestResult, <<>> standing for null
bestResult(strategies) ==
  LET successfulResults == SelectSeq(strategies, LAMBDA r : r.success /\ r.quality > 15)
  IN  IF Len(successfulResults) > 0
      THEN <<bestOf(successfulResults[1], successfulResults, 2)>>
      ELSE <<>>

\* the answers of OCR.space to the requests of the handler
DebugOcrResponses ==
  {[kind |-> "thrown", pages |-> <<>>],
   [kind |-> "httpError", pages |-> <<>>],
   [kind |-> "processingError", pages |-> <<>>],
   [kind |-> "parsed", pages |-> <<>>],
   [kind |-> "parsed", pages |-> <<OcrGarbagePage>>],
   [kind |-> "parsed", pages |-> <<OcrGoodPage>>]}

DebugInit ==
  /\ externalOcrAvailable \in BOOLEAN
  /\ localOcrAvailable = FALSE
  /\ mimetype \in {Pdf, "text/plain"}
  /\ pc = "debug_request"
  /\ fileExists = FALSE
  /\ text = <<>>
  /\ error = ""
  /\ thrown = {}
  /\ attempts = <<>>
  /\ ocrCaller = ""
  /\ strategyIndex = 0
  /\ strategyLog = <<>>
  /\ ocrResult = NoOcrResult
  /\ documentText = <<>>
  /\ foundNames = <<>>
  /\ companyOptions = <<>>
  /\ calls = <<>>
  /\ response = NoResponse
  /\ tempFiles = <<>>
  /\ jobs = <<>>
  /\ hubspotToken = ""
  /\ body = NoBody
  /\ crmRequests = <<>>

\* upload.single('document') and the handler up to the loop: a rejected
\* file is not stored and the handler answers 400; without the external
\* OCR dependencies the handler answers 400; fs.readFileSync may throw
DebugReceiveRequest ==
  /\ pc = "debug_request"
  /\ IF mimetype \notin allowedTypes
     THEN /\ response' = [NoResponse EXCEPT !.status = 400, !.error = NoFileError]
          /\ pc' = "done"
          /\ UNCHANGED << fileExists, error, thrown, strategyIndex >>
     ELSE /\ fileExists' = TRUE
          /\ IF ~externalOcrAvailable
             THEN /\ response' = [NoResponse EXCEPT !.status = 400,
                                                    !.error = OcrUnavailableError]
                  /\ pc' = "done"
                  /\ UNCHANGED << error, thrown, strategyIndex >>
             ELSE \E readable \in BOOLEAN :
                    IF readable
                    THEN /\ strategyIndex' = 1
                         /\ pc' = "debug_config"
                         /\ UNCHANGED << error, thrown, response >>
                    ELSE /\ error' = ReadFileError
                         /\ thrown' = thrown \cup {ReadFileError}
                         /\ pc' = "debug_catch"
                         /\ UNCHANGED << strategyIndex, response >>
  /\ UNCHANGED << capabilityVars, localOcrVars, crmVars, text, attempts, ocrCaller, strategyLog,
                  ocrResult, documentText, foundNames, companyOptions, calls >>

\* one iteration of the loop over testConfigurations
DebugConfiguration ==
  /\ pc = "debug_config"
  /\ \E ocrResponse \in DebugOcrResponses :
       strategyLog' = Append(strategyLog,
                             configResult(testConfigurations[strategyIndex], ocrResponse))
  /\ IF strategyIndex < Len(testConfigurations)
     THEN strategyIndex' = strategyIndex + 1 /\ pc' = "debug_config"
     ELSE pc' = "debug_finish" /\ UNCHANGED strategyIndex
  /\ UNCHANGED << capabilityVars, localOcrVars, crmVars, fileExists, text, error, thrown, attempts,
                  ocrCaller, ocrResult, documentText, foundNames, companyOptions, calls,
                  response >>

\* the rest of the try block: the best result, the company names found in
\* its text, the removal of the uploaded file and the answer
DebugFinish ==
  /\ pc = "debug_finish"
  /\ \E best \in {bestResult(strategyLog)} :
       \E companyNames \in {IF Len(best) > 0 /\ Len(best[1].extractedText) > 0
                             THEN extractCompanyNamesEnhanced(best[1].extractedText)
                             ELSE <<>>} :
         /\ companyOptions' = slice0(companyNames, 3)
         /\ response' = [NoResponse EXCEPT
                           !.status = 200,
                           !.companyOptions = slice0(companyNames, 3),
                           !.extractedText = IF Len(best) > 0 THEN best[1].extractedText
                                             ELSE <<>>,
                           !.documentLength = Len(companyNames)]
  /\ fileExists' = FALSE
  /\ pc' = "done"
  /\ UNCHANGED << capabilityVars, localOcrVars, crmVars, text, error, thrown, attempts, ocrVars,
                  documentText, foundNames, calls >>

\* catch (error): the uploaded file is removed and the handler answers 500
DebugCatch ==
  /\ pc = "debug_catch"
  /\ fileExists' = FALSE
  /\ response' = [NoResponse EXCEPT !.status = 500, !.error = error]
  /\ pc' = "done"
  /\ UNCHANGED << capabilityVars, localOcrVars, crmVars, text, error, thrown, attempts, ocrVars,
                  documentText, foundNames, companyOptions, calls >>

DebugNext ==
  \/ DebugReceiveRequest
  \/ DebugConfiguration
  \/ DebugFinish
  \/ DebugCatch

DebugSpec == DebugInit /\ [][DebugNext]_vars

\* C14: for every request that uploaded a document, the uploaded file no
\* longer exists when the response is sent, on every exit path of the
\* handler.
C14_UploadRemovedAtResponse ==
  response.status # 0 => ~fileExists

(***************************************************************************)
(* The extraction of the handler (extractCompanyNamesEnhanced, then        *)
(* extractCompanyNames when it found nothing) applied to texts in which a  *)
(* capitalized name is followed by an entity suffix.                       *)
(***************************************************************************)
\* 'The name of the limited liability company is '
DeclarationPrefix ==
  <<"T","h","e"," ","n","a","m","e"," ","o","f"," ","t","h","e"," ","l","i",
    "m","i","t","e","d"," ","l","i","a","b","i","l","i","t","y"," ","c","o",
    "m","p","a","n","y"," ","i","s"," ">>

\* what stands before and behind the name: nothing, the declaration of
\* articles of organization, and a sentence of an agreement
TextFrames ==
  {[before |-> <<>>, behind |-> <<>>],
   [before |-> DeclarationPrefix,
    behind |-> <<".">>],
   [before |-> <<"A","g","r","e","e","m","e","n","t"," ","w","i","t","h"," ">>, behind |-> <<" ","a","s"," ","c","o","u","n","s","e","l">>]}

CapitalizedNames ==
  {<<"F","o","o"," ","B","a","r">>,
   <<"P","o","r","v","i","n",","," ","B","u","r","n","s","t","e","i","n"," ","&"," ","G","a","r","e","l","i","k">>,
   <<"A","l","l","c">>,
   <<"I","n","c","l","i","n","e"," ","M","e","d","i","a">>}

SuffixSeparators == {<<" ">>, <<",", " ">>}

\* LLC, PLLC, Inc., Corp., Ltd., LLP and Company
EntitySuffixes ==
  {<<"L","L","C">>, <<"P","L","L","C">>, <<"I","n","c",".">>, <<"C","o","r","p",".">>, <<"L","t","d",".">>, <<"L","L","P">>, <<"C","o","m","p","a","n","y">>}

TextOf(frame, name, separator, suffix) ==
  frame.before \o name \o separator \o suffix \o frame.behind

ExtractorTexts ==
  {TextOf(frame, name, separator, suffix) :
     frame \in TextFrames, name \in CapitalizedNames,
     separator \in SuffixSeparators, suffix \in EntitySuffixes}

ExtractorInit ==
  /\ externalOcrAvailable = FALSE
  /\ localOcrAvailable = FALSE
  /\ mimetype = Docx
  /\ pc = "extract_enhanced"
  /\ fileExists = TRUE
  /\ text = <<>>
  /\ error = ""
  /\ thrown = {}
  /\ attempts = <<>>
  /\ ocrCaller = ""
  /\ strategyIndex = 0
  /\ strategyLog = <<>>
  /\ ocrResult = NoOcrResult
  /\ documentText \in ExtractorTexts
  /\ foundNames = <<>>
  /\ companyOptions = <<>>
  /\ calls = <<>>
  /\ response = NoResponse
  /\ tempFiles = <<>>
  /\ jobs = <<>>
  /\ hubspotToken = ""
  /\ body = NoBody
  /\ crmRequests = <<>>

ExtractorNext ==
  \/ ExtractEnhanced
  \/ ExtractStandard
  \/ Respond

ExtractorSpec == ExtractorInit /\ [][ExtractorNext]_vars

\* 'The name of the limited liability company is Foo Bar, LLC.'
FooBarSentence ==
  TextOf([before |-> DeclarationPrefix,
          behind |-> <<".">>],
         <<"F","o","o"," ","B","a","r">>, <<",", " ">>, <<"L","L","C">>)

\* C16: for the text 'The name of the limited liability company is Foo Bar,
\* LLC.' the top-ranked candidate is named 'Foo Bar LLC' or 'Foo Bar, LLC'
\* and has confidence >= 70.
C16_FooBarTopCandidate ==
  (documentText = FooBarSentence /\ pc = "respond") =>
    /\ Len(companyOptions) > 0
    /\ companyOptions[1].name \in {<<"F","o","o"," ","B","a","r"," ","L","L","C">>, <<"F","o","o"," ","B","a","r",","," ","L","L","C">>}
    /\ companyOptions[1].confidence >= 70

\* 'Porvin, Burnstein & Garelik, PLLC'
PorvinPllc ==
  <<"P","o","r","v","i","n",","," ","B","u","r","n","s","t","e","i","n"," ","&"," ","G","a","r","e","l","i","k">> \o <<",", " ", "P", "L", "L", "C">>

\* the patterns anchored to known names and to the phrase of the articles
HighSpecificityPatterns ==
  {"BitConcepts Direct Search", "PORVIN Direct Search", "BitConcepts Character Hunt",
   "PORVIN Character Hunt", "Articles Company Declaration"}

\* the patterns that take the words in front of an entity suffix
GenericSuffixPatterns ==
  {"Standard LLC Pattern", "Standard PLLC Pattern", "Flexible LLC Hunt",
   "Business Sequence Near LLC"}

IsPllcCandidate(candidate) ==
  includes(candidate.name, <<"P", "L", "L", "C">>) /\ candidate.confidence >= 40

\* C17: for a text that contains 'Porvin, Burnstein & Garelik, PLLC' the
\* extractor returns a candidate whose name contains 'PLLC' with confidence
\* >= 40, and such a candidate of a high-specificity pattern is ranked
\* before every candidate of a generic-suffix pattern.
C17_PllcCandidateRanked ==
  (includes(documentText, PorvinPllc) /\ pc = "respond") =>
    /\ \E i \in 1..Len(companyOptions) : IsPllcCandidate(companyOptions[i])
    /\ \A i, j \in 1..Len(companyOptions) :
         (/\ IsPllcCandidate(companyOptions[i])
          /\ companyOptions[i].patternName \in HighSpecificityPatterns
          /\ companyOptions[j].patternName \in GenericSuffixPatterns) => i < j

\* the declaration of Porvin, Burnstein & Garelik, PLLC: the candidate of
\* the declaration pattern stands before one of a generic-suffix pattern
C17_Witness ==
  /\ pc = "respond"
  /\ includes(documentText, PorvinPllc)
  /\ \E i, j \in 1..Len(companyOptions) :
       /\ i < j
       /\ IsPllcCandidate(companyOptions[i])
       /\ companyOptions[i].patternName = "Articles Company Declaration"
       /\ companyOptions[j].patternName \in GenericSuffixPatterns

\* the texts that are a capitalized name, a blank and an entity suffix
NameAndSuffixTexts ==
  {TextOf([before |-> <<>>, behind |-> <<>>], name, <<" ">>, suffix) :
     name \in CapitalizedNames, suffix \in EntitySuffixes}

\* C18: a text in which a capitalized name is immediately followed by one
\* of LLC, PLLC, Inc., Corp., Ltd., LLP and Company yields at least one
\* candidate from the extraction of the handler (enhanced, then
\* conservative), for each of the seven suffixes.
C18_EverySuffixYieldsCandidate ==
  (documentText \in NameAndSuffixTexts /\ pc = "respond") => Len(companyOptions) >= 1

(***************************************************************************)
(* The deduplication of the extractors applied to every pair of candidates  *)
(* over a set of names.                                                    *)
(***************************************************************************)
DedupNames ==
  {<<"I","n","c","l","i","n","e"," ","M","e","d","i","a"," ","L","L","C">>,
   <<"L","i","n","e"," ","M","e","d","i","a"," ","L","L","C">>,
   <<"A","c","m","e"," ","L","L","C">>,
   <<"A","C","M","E",","," ","L","L","C">>,
   <<"A","c","m","e"," ","I","n","c",".">>,
   <<"A","c","m","e"," ","T","o","o","l"," ","L","L","C">>,
   <<"C","o","r","p","u","s"," ","L","a","b","s"," ","L","L","C">>,
   <<"L","a","b","s"," ","C","o","m","p","a","n","y">>}

DedupConfidences == {60, 75}

DedupCandidates ==
  {[name |-> name, confidence |-> confidence, patternName |-> "Standard LLC Pattern",
    originalMatch |-> name, context |-> name] :
     name \in DedupNames, confidence \in DedupConfidences}

DedupInit ==
  /\ externalOcrAvailable = FALSE
  /\ localOcrAvailable = FALSE
  /\ mimetype = Docx
  /\ pc = "dedup"
  /\ fileExists = FALSE
  /\ text = <<>>
  /\ error = ""
  /\ thrown = {}
  /\ attempts = <<>>
  /\ ocrCaller = ""
  /\ strategyIndex = 0
  /\ strategyLog = <<>>
  /\ ocrResult = NoOcrResult
  /\ documentText = <<>>
  /\ foundNames \in {<<first, second>> : first \in DedupCandidates, second \in DedupCandidates}
  /\ companyOptions = <<>>
  /\ calls = <<>>
  /\ response = NoResponse
  /\ tempFiles = <<>>
  /\ jobs = <<>>
  /\ hubspotToken = ""
  /\ body = NoBody
  /\ crmRequests = <<>>

\* the deduplication, the sort and the slice at the end of an extractor
Deduplicate ==
  /\ pc = "dedup"
  /\ companyOptions' = rankAndTruncate(uniqueNames(foundNames))
  /\ pc' = "deduped"
  /\ UNCHANGED << capabilityVars, localOcrVars, crmVars, fileExists, text, error, thrown, attempts,
                  ocrVars, documentText, foundNames, calls, response >>

DedupNext == Deduplicate

DedupSpec == DedupInit /\ [][DedupNext]_vars

\* LLC, INC, CORP, COMPANY, LTD, LLP and PLLC in lower case
SuffixTokenSet == {SuffixTokens[k] : k \in 1..Len(SuffixTokens)}

\* the name in lower case without the tokens (maximal runs of letters and
\* digits) that are an entity suffix and without the other characters
tokenNormalizedName(name) ==
  LET lower == toLowerCase(name)
      alnum(i) == i >= 1 /\ i <= Len(lower) /\ lower[i] \in Lower \cup Digit
      first(i) == CHOOSE lo \in 1..i :
                    /\ \A k \in lo..i : alnum(k)
                    /\ ~alnum(lo - 1)
      last(i) == CHOOSE hi \in i..Len(lower) :
                   /\ \A k \in i..hi : alnum(k)
                   /\ ~alnum(hi + 1)
      keep == SelectSeq(Indices(Len(lower)),
                LAMBDA i : alnum(i) /\ SubSeq(lower, first(i), last(i)) \notin SuffixTokenSet)
  IN  [k \in 1..Len(keep) |-> lower[keep[k]]]

\* C19: two candidates are merged by the deduplication if and only if their
\* names are equal after lowercasing and removing the non-alphanumeric
\* characters and the entity suffixes as whole tokens; names that differ in
\* another word are never merged.
C19_MergedIffSameTokens ==
  pc = "deduped" =>
    (Len(companyOptions) = 1
       <=> tokenNormalizedName(foundNames[1].name) = tokenNormalizedName(foundNames[2].name))

\* the candidate that the match m of an enhanced pattern pushes is in
\* foundNames
Kept(pattern, m) ==
  \E i \in 1..Len(foundNames) :
    /\ foundNames[i].patternName = pattern.name
    /\ foundNames[i].originalMatch = m.fullMatch
    /\ foundNames[i].name = finalNameEnhanced(pattern, m)

\* C20: the candidate of a match of a pattern is kept if and only if its
\* final name has 3 to 80 characters and does not match the denylist of
\* document-structure words.
C20_KeptIffLengthAndDenylist ==
  (Len(calls) = 1 /\ pc \in {"extract_standard", "respond"}) =>
    \A p \in 1..Len(enhancedPatterns) :
      LET ms == execLoop(enhancedPatterns[p].regex, cleanTextOf(documentText), 1, 10)
      IN  \A k \in 1..Len(ms) :
            LET finalName == finalNameEnhanced(enhancedPatterns[p], ms[k])
            IN  Kept(enhancedPatterns[p], ms[k])
                  <=> (Len(finalName) \in 3..80 /\ ~matchesDenylist(finalName))

(***************************************************************************)
(* The CRM update: updateHubSpotCompany and its callers, the handlers of   *)
(* /api/update-company and /api/upload-document.  In CrmSpec an error      *)
(* message is the sequence of the parts of its template literal.           *)
(***************************************************************************)
MissingTokenError == << "HubSpot access token not configured" >>

\* the template literal HubSpot API error: ${response.status} - ${errorText}
HubSpotApiError(status, errorText) == << "HubSpot API error: ", status, " - ", errorText >>

IdAndNameRequiredError == << "Company ID and name are required" >>

CompanyIdRequiredError == << "Company ID is required" >>

CouldNotExtractError == << "Could not extract company names" >>

\* what api.hubapi.com answers to the PATCH request: fetch rejects, or a
\* response with a status and a body that is JSON or not
HubSpotAnswers ==
  {[kind |-> "rejected", status |-> 0, text |-> "fetch failed", json |-> FALSE],
   [kind |-> "response", status |-> 200, text |-> "{\"id\":\"123\"}", json |-> TRUE],
   [kind |-> "response", status |-> 200, text |-> "<html>", json |-> FALSE],
   [kind |-> "response", status |-> 400, text |-> "Invalid input JSON", json |-> FALSE],
   [kind |-> "response", status |-> 401, text |-> "Authentication credentials not found",
    json |-> FALSE],
   [kind |-> "response", status |-> 404, text |-> "resource not found", json |-> FALSE],
   [kind |-> "response", status |-> 429, text |-> "rate limit", json |-> FALSE],
   [kind |-> "response", status |-> 502, text |-> "Bad Gateway", json |-> FALSE]}

\* response.ok
ok(answer) == answer.kind = "response" /\ answer.status \in 200..299

PatchRequest(token, companyId, companyName, answer) ==
  [method |-> "PATCH", companyId |-> companyId, name |-> companyName,
   authorization |-> token, answer |-> answer]

\* variant that returns the body of the answer whatever its status
updateHubSpotCompanyAnyStatus(token, companyId, companyName, answer) ==
  IF token = ""
  THEN [sent |-> <<>>, error |-> MissingTokenError]
  ELSE [sent |-> << PatchRequest(token, companyId, companyName, answer) >>,
        error |-> IF answer.kind = "rejected" THEN << answer.text >>
                  ELSE IF ~answer.json THEN << "Unexpected token in JSON" >>
                  ELSE <<>>]

\* updateHubSpotCompany(companyId, companyName): the requests it sent and
\* the message of the error it threw, <<>> if it returned
updateHubSpotCompany(token, companyId, companyName, answer) ==
  IF token = ""
  THEN [sent |-> <<>>, error |-> MissingTokenError]
  ELSE [sent |-> << PatchRequest(token, companyId, companyName, answer) >>,
        error |-> IF answer.kind = "rejected" THEN << answer.text >>
                  ELSE IF ~ok(answer) THEN HubSpotApiError(answer.status, answer.text)
                  ELSE IF ~answer.json THEN << "Unexpected token in JSON" >>
                  ELSE <<>>]

\* the request bodies a client may send
CompanyNames == {<<>>, BitConceptsName, PorvinName}

Bodies == [companyId : {"", "123"}, companyName : CompanyNames]

\* what parseDocumentWithOptimizedOCR does for the uploaded document
LegacyParseOutcomes == {Throws, Returns(BitConceptsName), Returns(DocxNoNames)}

CrmInit ==
  /\ externalOcrAvailable = FALSE
  /\ localOcrAvailable = FALSE
  /\ mimetype \in {Pdf, "text/plain"}
  /\ pc \in {"update_request", "legacy_request"}
  /\ fileExists = (pc = "legacy_request" /\ mimetype \in allowedTypes)
  /\ text = <<>>
  /\ error = ""
  /\ thrown = {}
  /\ attempts = <<>>
  /\ ocrCaller = ""
  /\ strategyIndex = 0
  /\ strategyLog = <<>>
  /\ ocrResult = NoOcrResult
  /\ documentText = <<>>
  /\ foundNames = <<>>
  /\ companyOptions = <<>>
  /\ calls = <<>>
  /\ response = [NoResponse EXCEPT !.error = <<>>]
  /\ tempFiles = <<>>
  /\ jobs = <<>>
  /\ hubspotToken \in {"", "pat-na1-token"}
  /\ body \in Bodies
  /\ crmRequests = <<>>

\* the answer of a handler that sends an error
ErrorResponse(status, message) ==
  [NoResponse EXCEPT !.status = status, !.error = message]

\* POST /api/update-company up to the call of updateHubSpotCompany
UpdateCompanyRequest ==
  /\ pc = "update_request"
  /\ IF body.companyId = "" \/ body.companyName = <<>>
     THEN /\ response' = ErrorResponse(400, IdAndNameRequiredError)
          /\ pc' = "done"
     ELSE /\ pc' = "update_call"
          /\ UNCHANGED response
  /\ UNCHANGED << capabilityVars, localOcrVars, hubspotToken, body, crmRequests, fileExists,
                  text, error, thrown, attempts, ocrVars, documentText, foundNames,
                  companyOptions, calls >>

\* await updateHubSpotCompany(companyId, companyName), then res.json or the
\* catch block
UpdateCompanyCall ==
  /\ pc = "update_call"
  /\ \E answer \in HubSpotAnswers :
       \E result \in {updateHubSpotCompany(hubspotToken, body.companyId,
                                           body.companyName, answer)} :
         /\ crmRequests' = crmRequests \o result.sent
         /\ response' = IF result.error = <<>>
                        THEN [NoResponse EXCEPT !.status = 200, !.error = <<>>]
                        ELSE ErrorResponse(500, result.error)
  /\ pc' = "done"
  /\ UNCHANGED << capabilityVars, localOcrVars, hubspotToken, body, fileExists, text, error,
                  thrown, attempts, ocrVars, documentText, foundNames, companyOptions,
                  calls >>

\* POST /api/upload-document up to the call of the parser
LegacyRequest ==
  /\ pc = "legacy_request"
  /\ IF ~fileExists
     THEN /\ response' = ErrorResponse(400, << NoFileError >>)
          /\ pc' = "done"
     ELSE IF body.companyId = ""
     THEN /\ response' = ErrorResponse(400, CompanyIdRequiredError)
          /\ pc' = "done"
     ELSE /\ pc' = "legacy_parse"
          /\ UNCHANGED response
  /\ UNCHANGED << capabilityVars, localOcrVars, hubspotToken, body, crmRequests, fileExists,
                  text, error, thrown, attempts, ocrVars, documentText, foundNames,
                  companyOptions, calls >>

\* documentText = await parseDocumentWithOptimizedOCR(...); the catch
\* block removes the upload and answers 500
LegacyParse ==
  /\ pc = "legacy_parse"
  /\ \E outcome \in LegacyParseOutcomes :
       IF outcome = Throws
       THEN /\ fileExists' = FALSE
            /\ response' = ErrorResponse(500, << UnsupportedTypeError >>)
            /\ pc' = "done"
            /\ UNCHANGED documentText
       ELSE /\ documentText' = outcome.text
            /\ pc' = "legacy_extract"
            /\ UNCHANGED << fileExists, response >>
  /\ UNCHANGED << capabilityVars, localOcrVars, hubspotToken, body, crmRequests, text, error,
                  thrown, attempts, ocrVars, foundNames, companyOptions, calls >>

\* the two extractors, the removal of the upload and the answer 400 when
\* there is no candidate
LegacyExtract ==
  /\ pc = "legacy_extract"
  /\ \E enhanced \in {extractCompanyNamesEnhanced(documentText)} :
       \E options \in {IF Len(enhanced) = 0 THEN extractCompanyNames(documentText)
                       ELSE enhanced} :
         /\ companyOptions' = options
         /\ IF Len(options) = 0
            THEN /\ response' = [ErrorResponse(400, CouldNotExtractError) EXCEPT
                                   !.extractedText =
                                      substring0(documentText, 1000) \o <<".", ".", ".">>]
                 /\ pc' = "done"
            ELSE /\ pc' = "legacy_call"
                 /\ UNCHANGED response
  /\ fileExists' = FALSE
  /\ UNCHANGED << capabilityVars, localOcrVars, hubspotToken, body, crmRequests, text, error,
                  thrown, attempts, ocrVars, documentText, foundNames, calls >>

\* await updateHubSpotCompany(companyId, bestOption.name), then res.json or
\* the catch block
LegacyCall ==
  /\ pc = "legacy_call"
  /\ \E answer \in HubSpotAnswers :
       \E result \in {updateHubSpotCompany(hubspotToken, body.companyId,
                                           companyOptions[1].name, answer)} :
         /\ crmRequests' = crmRequests \o result.sent
         /\ response' = IF result.error = <<>>
                        THEN [NoResponse EXCEPT !.status = 200, !.error = <<>>,
                                               !.companyOptions = companyOptions]
                        ELSE ErrorResponse(500, result.error)
  /\ pc' = "done"
  /\ UNCHANGED << capabilityVars, localOcrVars, hubspotToken, body, fileExists, text, error,
                  thrown, attempts, ocrVars, documentText, foundNames, companyOptions,
                  calls >>

CrmNext ==
  \/ UpdateCompanyRequest
  \/ UpdateCompanyCall
  \/ LegacyRequest
  \/ LegacyParse
  \/ LegacyExtract
  \/ LegacyCall

CrmSpec == CrmInit /\ [][CrmNext]_vars

\* the update failed: no token, no answer, or an answer that is not 2xx
UpdateFailed(token, requests) ==
  \/ token = ""
  \/ Len(requests) > 0 /\ ~ok(requests[Len(requests)].answer)

\* the call of updateHubSpotCompany failed and the handler answered with an
\* error that holds what the upstream said
FailureSurfaced ==
  pc \in {"update_call", "legacy_call"} /\ UpdateFailed(hubspotToken, crmRequests')
    => /\ response'.status \in 400..599
       /\ IF hubspotToken = "" THEN response'.error = MissingTokenError
          ELSE LET answer == crmRequests'[1].answer
               IN  IF answer.kind = "rejected"
                   THEN response'.error = << answer.text >>
                   ELSE /\ Len(response'.error) = 4
                        /\ response'.error[2] = answer.status
                        /\ response'.error[4] = answer.text

\* C21: a request sends at most one PATCH request to the CRM, and when the
\* update fails (no token, the request is rejected, or the status is not
\* 2xx) the handler answers with an error status and a message that holds
\* the upstream status and text, never with a success.
C21_FailureSurfacedOnce ==
  [](Len(crmRequests) <= 1) /\ [][FailureSurfaced]_vars

\* a PATCH request was answered 404 and the handler has answered
C21_Witness ==
  /\ pc = "done"
  /\ Len(crmRequests) = 1
  /\ crmRequests[1].answer.status = 404
  /\ response.status = 500

(***************************************************************************)
(* parseDocumentWithOptimizedOCR called with any declared type (ParserSpec):*)
(* the types of MimeTypes and two types no case of the switch names.       *)
(***************************************************************************)
\* the types a case of the switch or a branch of its default case names
SupportedTypes == {Pdf, Docx, Msword} \cup ImageTypes

DeclaredTypes == MimeTypes \cup {"image/gif", "application/zip"}

ParserInit ==
  /\ externalOcrAvailable \in BOOLEAN
  /\ localOcrAvailable \in BOOLEAN
  /\ mimetype \in DeclaredTypes
  /\ pc = "parse"
  /\ fileExists = TRUE
  /\ text = <<>>
  /\ error = ""
  /\ thrown = {}
  /\ attempts = <<>>
  /\ ocrCaller = ""
  /\ strategyIndex = 0
  /\ strategyLog = <<>>
  /\ ocrResult = NoOcrResult
  /\ documentText = <<>>
  /\ foundNames = <<>>
  /\ companyOptions = <<>>
  /\ calls = <<>>
  /\ response = NoResponse
  /\ tempFiles = <<>>
  /\ jobs = <<>>
  /\ hubspotToken = ""
  /\ body = NoBody
  /\ crmRequests = <<>>

ParserNext ==
  \/ ParsePdf
  \/ ParseImage
  \/ ParseTextDocument
  \/ PdfMethod1
  \/ PdfMethod2
  \/ PdfMethod3
  \/ PdfMethod4
  \/ PdfMethod4Return
  \/ PdfMethod5
  \/ PdfQuality
  \/ PdfCatch
  \/ PdfCatchReturn
  \/ ImageReturn
  \/ FinalGate
  \/ ParseReturn
  \/ ParseRethrow
  \/ OcrStrategy
  \/ OcrExhausted

ParserSpec == ParserInit /\ [][ParserNext]_vars

\* C22: for a declared type outside the supported set the parser throws
\* 'Unsupported file type', and it does so without having tried any
\* extraction strategy or sent any OCR request.
C22_UnsupportedTypeFailsUntried ==
  mimetype \notin SupportedTypes =>
    /\ pc \in {"parse", "parse_throw", "handler_catch"}
    /\ pc # "parse" => error = UnsupportedTypeError /\ thrown = {UnsupportedTypeError}
    /\ attempts = <<>>
    /\ strategyLog = <<>>
    /\ strategyIndex = 0

\* the parser has thrown for a document declared as text/plain
C22_Witness ==
  /\ mimetype = "text/plain"
  /\ pc = "parse_throw"
  /\ error = UnsupportedTypeError

(***************************************************************************)
(* The confidence of the candidates of version 3.4.0 (ExtractorSpec).      *)
(***************************************************************************)
\* the adjustment of calculateConfidence with the result held in 0..100
clampedConfidence(match, fullText, baseConfidence, cleanedName) ==
  Max(0, Min(adjustedConfidence(match, fullText, baseConfidence, cleanedName), 100))

\* C23: every candidate a pattern pushed has the pattern's base confidence
\* plus 3 per occurrence of the name up to 15, plus 10 or 5 for a match in
\* the first 200 or 500 characters, plus 5 for a name of 5 to 30
\* characters, minus 15 for a name shorter than 3, minus 10 for one longer
\* than 50, held in 0..100, and so at most the base plus 30.
C23_ConfidenceIsAdjustedBase ==
  (Len(calls) = 1 /\ pc \in {"extract_standard", "respond"}) =>
    \A i \in 1..Len(foundNames) :
      foundNames[i].patternName # "Fragment Matching" =>
        \E p \in 1..Len(enhancedPatterns) :
          /\ enhancedPatterns[p].name = foundNames[i].patternName
          /\ foundNames[i].confidence =
               clampedConfidence(foundNames[i].originalMatch, cleanTextOf(documentText),
                                 enhancedPatterns[p].confidence, foundNames[i].name)
          /\ foundNames[i].confidence <= enhancedPatterns[p].confidence + 30

(***************************************************************************)
(* The entity suffix of a pattern candidate (ExtractorSpec).               *)
(***************************************************************************)
\* the canonical form of the suffix token a match of a pattern ends with:
\* every pattern without a custom extractor ends with LLC, L.L.C. or PLLC
matchedSuffix(fullMatch) ==
  LET n == Len(fullMatch)
  IN  IF n >= 4 /\ toLowerCase(SubSeq(fullMatch, n - 3, n)) = <<"p","l","l","c">>
      THEN <<"P","L","L","C">>
      ELSE <<"L","L","C">>

\* the final name of a match when the suffix of the matched token is
\* appended to the cleaned name
nameWithMatchedSuffix(m) ==
  trim(CollapseWhitespace(RemoveNumberTokens(
    withEntityType(cleanCompanyPart(m.group1), matchedSuffix(m.fullMatch)))))

\* C24: the name of every candidate of a pattern is the cleaned name
\* followed by the canonical form of the suffix token that matched, or the
\* cleaned name alone if it already contains that suffix; letters inside
\* the name never turn the suffix into Inc. or Corp.
C24_SuffixOfMatchedToken ==
  (Len(calls) = 1 /\ pc \in {"extract_standard", "respond"}) =>
    \A i \in 1..Len(foundNames) :
      \A p \in 1..Len(enhancedPatterns) :
        (enhancedPatterns[p].name = foundNames[i].patternName
           /\ ~enhancedPatterns[p].extractName) =>
          LET ms == execLoop(enhancedPatterns[p].regex, cleanTextOf(documentText), 1, 10)
          IN  \E k \in 1..Len(ms) :
                /\ ms[k].fullMatch = foundNames[i].originalMatch
                /\ foundNames[i].name = nameWithMatchedSuffix(ms[k])

(***************************************************************************)
(* Fragment matching for known companies, applied to texts made of the     *)
(* words that hold the fragments (FragmentSpec).                           *)
(***************************************************************************)
\* 'Bitumen', 'Concepts', 'LLC', 'Porvin', 'BURNSTEIN', 'Garelik', 'PLLC'
FragmentWordPool ==
  << <<"B","i","t","u","m","e","n">>,
     <<"C","o","n","c","e","p","t","s">>,
     <<"L","L","C">>,
     <<"P","o","r","v","i","n">>,
     <<"B","U","R","N","S","T","E","I","N">>,
     <<"G","a","r","e","l","i","k">>,
     <<"P","L","L","C">> >>

RECURSIVE JoinWords(_, _)
\* the words of the pool at the positions of chosen, in order, separated by
\* a blank
JoinWords(chosen, k) ==
  IF k > Len(FragmentWordPool) THEN <<>>
  ELSE IF k \in chosen
  THEN FragmentWordPool[k]
         \o (IF \E j \in chosen : j > k THEN <<" ">> ELSE <<>>)
         \o JoinWords(chosen, k + 1)
  ELSE JoinWords(chosen, k + 1)

FragmentTexts == {JoinWords(chosen, 1) : chosen \in SUBSET (1..Len(FragmentWordPool))}

FragmentInit ==
  /\ externalOcrAvailable = FALSE
  /\ localOcrAvailable = FALSE
  /\ mimetype = Docx
  /\ pc = "fragment_matching"
  /\ fileExists = TRUE
  /\ text = <<>>
  /\ error = ""
  /\ thrown = {}
  /\ attempts = <<>>
  /\ ocrCaller = ""
  /\ strategyIndex = 0
  /\ strategyLog = <<>>
  /\ ocrResult = NoOcrResult
  /\ documentText \in FragmentTexts
  /\ foundNames = <<>>
  /\ companyOptions = <<>>
  /\ calls = <<>>
  /\ response = NoResponse
  /\ tempFiles = <<>>
  /\ jobs = <<>>
  /\ hubspotToken = ""
  /\ body = NoBody
  /\ crmRequests = <<>>

\* extractCompanyNamesEnhanced up to the end of the loop over
\* knownCompanies: foundNames holds the fragment candidates
FragmentMatching ==
  /\ pc = "fragment_matching"
  /\ foundNames' = IF Len(documentText) < 5 THEN <<>>
                   ELSE fragmentCandidates(cleanTextOf(documentText))
  /\ pc' = "patterns"
  /\ UNCHANGED << capabilityVars, localOcrVars, crmVars, fileExists, text, error, thrown,
                  attempts, ocrVars, documentText, companyOptions, calls, response >>

FragmentNext == FragmentMatching

FragmentSpec == FragmentInit /\ [][FragmentNext]_vars

\* the fragment occurs in a lowercased maximal run of at least 3 letters
FragmentPresent(fragment, fullText) ==
  \E a \in 1..Len(fullText) :
    \E b \in (a + 2)..Len(fullText) :
      /\ \A k \in a..b : fullText[k] \in Letter
      /\ a = 1 \/ fullText[a - 1] \notin Letter
      /\ b = Len(fullText) \/ fullText[b + 1] \notin Letter
      /\ includes(toLowerCase(SubSeq(fullText, a, b)), fragment)

\* the entries of foundNames that fragment matching pushed for a company
EmittedFor(company) ==
  {i \in 1..Len(foundNames) :
     /\ foundNames[i].patternName = "Fragment Matching"
     /\ foundNames[i].name = company.name}

\* C25: fragment matching pushes the canonical name of a known company,
\* once and with the company's confidence, if and only if at least 60% of
\* the company's fragments occur in a lowercased letter run of length 3 or
\* more of the text; otherwise it pushes nothing for the company.
C25_EmittedIffSixtyPercent ==
  pc = "patterns" =>
    \A c \in 1..Len(knownCompanies) :
      LET company == knownCompanies[c]
          n == Len(company.fragments)
          found == Cardinality({f \in 1..n : FragmentPresent(company.fragments[f], documentText)})
      IN  IF 10 * found >= 6 * n
          THEN /\ Cardinality(EmittedFor(company)) = 1
               /\ \A i \in EmittedFor(company) :
                    foundNames[i].confidence = company.confidence
          ELSE EmittedFor(company) = {}

\* two of the three fragments of BitConcepts are in the text and three of
\* the four of PORVIN: both names were pushed
C25_Witness ==
  /\ pc = "patterns"
  /\ documentText = JoinWords({1, 2, 4, 5, 6}, 1)
  /\ Len(foundNames) = 2

(***************************************************************************)
(* The word filter of the analyzer, applied to texts of words made of a    *)
(* vowel, the letter y and a consonant (WordSpec).                         *)
(***************************************************************************)
\* [bcdfghjklmnpqrstvwxyzBCDFGHJKLMNPQRSTVWXYZ]
Consonant ==
  {"b", "c", "d", "f", "g", "h", "j", "k", "l", "m", "n", "p", "q", "r", "s", "t", "v", "w", "x", "y", "z",
   "B", "C", "D", "F", "G", "H", "J", "K", "L", "M", "N", "P", "Q", "R", "S", "T", "V", "W", "X", "Y", "Z"}

MaxWordTextLen == 6

WordAlphabet == {"a", "y", "B", " "}

\* 'abababababababababab' (20 letters) and the same with one letter more
TwentyLetters == [k \in 1..20 |-> IF k % 2 = 1 THEN "a" ELSE "b"]

TwentyOneLetters == TwentyLetters \o <<"a">>

WordTexts ==
  UNION {[1..n -> WordAlphabet] : n \in 0..MaxWordTextLen}
    \cup {TwentyLetters, TwentyOneLetters}

WordInit ==
  /\ externalOcrAvailable = FALSE
  /\ localOcrAvailable = FALSE
  /\ mimetype = Pdf
  /\ pc = "analyze"
  /\ fileExists = FALSE
  /\ text \in WordTexts
  /\ error = ""
  /\ thrown = {}
  /\ attempts = <<>>
  /\ ocrCaller = ""
  /\ strategyIndex = 0
  /\ strategyLog = <<>>
  /\ ocrResult = NoOcrResult
  /\ documentText = <<>>
  /\ foundNames = <<>>
  /\ companyOptions = <<>>
  /\ calls = <<>>
  /\ response = NoResponse
  /\ tempFiles = <<>>
  /\ jobs = <<>>
  /\ hubspotToken = ""
  /\ body = NoBody
  /\ crmRequests = <<>>

WordSpec == WordInit /\ [][AnalyzerNext]_vars

\* the maximal runs of at least 2 letters, as pairs of positions
LetterRuns(fullText) ==
  {r \in (1..Len(fullText)) \X (1..Len(fullText)) :
     /\ r[2] >= r[1] + 1
     /\ \A k \in r[1]..r[2] : fullText[k] \in Letter
     /\ r[1] = 1 \/ fullText[r[1] - 1] \notin Letter
     /\ r[2] = Len(fullText) \/ fullText[r[2] + 1] \notin Letter}

\* the condition of the design for a valid word
ValidByDesign(fullText, r) ==
  LET len == r[2] - r[1] + 1
  IN  /\ len \in 2..20
      /\ (\E k \in r[1]..r[2] : fullText[k] \in Vowel) \/ len <= 3
      /\ ~\E k \in r[1]..(r[2] - 4) : \A m \in k..(k + 4) : fullText[m] \in Consonant

\* C26: validWordCount counts exactly the words (maximal runs of at least
\* 2 letters) whose length is in [2,20], that have a vowel or at most 3
\* letters, and that hold no run of 5 or more consonants.
C26_ValidWordIffDesign ==
  pc = "analyzed" =>
    response.textQuality.validWordCount =
      Cardinality({r \in LetterRuns(text) : ValidByDesign(text, r)})

\* a word of five consonants, a word of four letters without a vowel and a
\* word of 21 letters have been analyzed and none was counted
C26_Witness ==
  /\ pc = "analyzed"
  /\ text \in {<<"B","y","B","y","B">>, <<"y","B","y","B">>, TwentyOneLetters}
  /\ response.textQuality.validWordCount = 0

(***************************************************************************)
(* The result of the OCR runner (Spec).                                    *)
(***************************************************************************)
\* C28: when the runner returns a result, the text of the result has at
\* least 20 characters and the quality and validWords reported with it are
\* at least 20 and at least 5: the cleaned text clears the thresholds the
\* runner applies.
C28_ReturnedTextClearsGate ==
  (pc = "ocr_return" /\ ocrResult.method # "") =>
    /\ Len(ocrResult.text) >= 20
    /\ ocrResult.quality >= 20
    /\ ocrResult.validWords >= 5

(***************************************************************************)
(* The post-OCR cleanup applied to every text of a bounded length, with    *)
(* the quality report of the text and with reports at the threshold of     *)
(* the aggressive cleanup (CleanupSpec).                                   *)
(***************************************************************************)
MaxCleanupLen == 4

\* a lower-case and an upper-case letter, sentence punctuation, a blank, a
\* newline, a character the aggressive cleanup removes and one it keeps
CleanupAlphabet == {"a", "B", ".", " ", "\n", "#", "'"}

CleanupTexts == UNION {[1..n -> CleanupAlphabet] : n \in 0..MaxCleanupLen}

\* the report of the text itself, and the same report with readableRatio
\* just below and at the threshold
QualityReports(fullText) ==
  {analyzeTextQuality(fullText),
   [analyzeTextQuality(fullText) EXCEPT !.readableRatio = 49],
   [analyzeTextQuality(fullText) EXCEPT !.readableRatio = 50]}

CleanupInit ==
  /\ externalOcrAvailable = TRUE
  /\ localOcrAvailable = FALSE
  /\ mimetype = Pdf
  /\ pc = "cleanup"
  /\ fileExists = TRUE
  /\ text \in CleanupTexts
  /\ error = ""
  /\ thrown = {}
  /\ attempts = <<>>
  /\ ocrCaller = ""
  /\ strategyIndex = 0
  /\ strategyLog = <<>>
  /\ ocrResult = NoOcrResult
  /\ documentText = <<>>
  /\ foundNames = <<>>
  /\ companyOptions = <<>>
  /\ calls = <<>>
  /\ response = NoResponse
  /\ tempFiles = <<>>
  /\ jobs = <<>>
  /\ hubspotToken = ""
  /\ body = NoBody
  /\ crmRequests = <<>>

\* const cleanedText = applyIntelligentCleanup(allText, overallQuality):
\* ocrResult holds the text passed in, the readableRatio and the word count
\* of the report passed in, and the text returned
Cleanup ==
  /\ pc = "cleanup"
  /\ \E qualityAnalysis \in QualityReports(text) :
       ocrResult' = [text |-> applyIntelligentCleanup(text, qualityAnalysis),
                     rawText |-> text,
                     method |-> "applyIntelligentCleanup",
                     quality |-> qualityAnalysis.readableRatio,
                     validWords |-> qualityAnalysis.validWordCount]
  /\ pc' = "cleaned"
  /\ UNCHANGED << capabilityVars, localOcrVars, crmVars, fileExists, text, error, thrown,
                  attempts, ocrCaller, strategyIndex, strategyLog, handlerVars >>

CleanupNext == Cleanup

CleanupSpec == CleanupInit /\ [][CleanupNext]_vars

\* C27: the text the cleanup returns has no whitespace at either end and no
\* two whitespace characters in a row, and when the report has
\* readableRatio < 50 each of its characters is a word character,
\* whitespace or one of . , ; : ! ? - ( ) ' " &.
C27_CleanupNormalForm ==
  pc = "cleaned" =>
    LET out == ocrResult.text
    IN  /\ out # <<>> => (out[1] \notin WhiteSpace /\ out[Len(out)] \notin WhiteSpace)
        /\ \A i \in 1..(Len(out) - 1) :
             ~(out[i] \in WhiteSpace /\ out[i + 1] \in WhiteSpace)
        /\ ocrResult.quality < 50 =>
             \A i \in 1..Len(out) :
               out[i] \in WordChar \cup WhiteSpace
                            \cup {".", ",", ";", ":", "!", "?", "-", "(", ")", "'", "\"", "&"}

\* a text that starts with a blank and a newline and holds a character
\* outside the kept class was cleaned with a report below the threshold
C27_Witness ==
  /\ pc = "cleaned"
  /\ ocrResult.rawText = <<" ", "\n", "#", "a">>
  /\ ocrResult.quality < 50
  /\ ocrResult.text = <<"a">>

(***************************************************************************)
(* The character classes of the analyzer (AnalyzerSpec).                   *)
(***************************************************************************)
\* the characters of the model's texts
Characters == PrintableAscii \cup WhiteSpace

\* C29: the readable and the garbled class of analyzeTextQuality have no
\* character in common and every character but the underscore is in
\* exactly one of them, so readableChars + garbledChars <= totalChars,
\* with equality exactly for a text without an underscore.
C29_ClassesPartition ==
  (pc = "analyzed" /\ text # <<>>) =>
    LET quality == response.textQuality
        totalChars == Len(text)
        garbledChars == quality.garbledRatio.num
        readableChars == Cardinality({i \in 1..totalChars : text[i] \in ReadableChar})
        underscores == Cardinality({i \in 1..totalChars : text[i] = "_"})
    IN  /\ \A c \in Characters :
             /\ ~(c \in ReadableChar /\ c \notin NotGarbledChar)
             /\ c # "_" <=> (c \in ReadableChar \/ c \notin NotGarbledChar)
        /\ quality.readableRatio = RoundPercent(totalChars - garbledChars - underscores, totalChars)
        /\ readableChars + garbledChars <= totalChars
        /\ readableChars + garbledChars = totalChars <=> underscores = 0

\* a text with a letter, an underscore and a garbled character has been
\* analyzed: one of three characters is readable and one is garbled
C29_Witness ==
  /\ pc = "analyzed"
  /\ text = <<"a", "_", "#">>
  /\ response.textQuality.garbledRatio = [num |-> 1, den |-> 3]
  /\ response.textQuality.readableRatio = 33

(***************************************************************************)
(* Ties in the deduplication (DedupSpec).                                  *)
(***************************************************************************)
\* C30: of two raw candidates with the same normalized name and the same
\* confidence the one found first is the one the deduplication keeps.
C30_FirstFoundWinsTie ==
  (pc = "deduped"
     /\ normalizedName(foundNames[1].name) = normalizedName(foundNames[2].name)
     /\ foundNames[1].confidence = foundNames[2].confidence)
    => companyOptions = << foundNames[1] >>

\* 'Acme LLC' was found before 'ACME, LLC' with the same confidence and is
\* the only name returned
C30_Witness ==
  /\ pc = "deduped"
  /\ foundNames[1].name = <<"A","c","m","e"," ","L","L","C">>
  /\ foundNames[2].name = <<"A","C","M","E",","," ","L","L","C">>
  /\ foundNames[1].confidence = foundNames[2].confidence
  /\ Len(companyOptions) = 1
  /\ companyOptions[1].name = foundNames[1].name

====
